---- MODULE Spec2Model ----
(***************************************************************************)
(* State-machine model of the market-making engine core:                   *)
(*   - RiskManager   (src/RiskManager.cpp, src/include/RiskManager.h)      *)
(*   - MatchingEngine (src/unnamed/part_009, src/unnamed/part_007)         *)
(*   - Accounting    (src/include/Accounting.h)                            *)
(* C++ doubles are modelled as exact rationals [n, d] in lowest terms;     *)
(* time points are integer milliseconds.                                   *)
(***************************************************************************)
EXTENDS Integers, Sequences, FiniteSets, TLC

VARIABLES
    \* ---- RiskManager (src/include/RiskManager.h:64-80)
    state_, last_results_,
    high_water_mark_, drawdown_, hwm_initialized_,
    quote_timestamps_, cancel_timestamps_,
    breach_timestamp_, breach_timestamp_set_,
    last_md_timestamp_, last_md_timestamp_set_,
    \* ---- event clock (MarketSimulator::simulation_clock) and call record
    clock, rm_call,
    \* ---- number of calls the driver has made so far
    calls,
    \* ---- MatchingEngine (src/unnamed/part_007:20-21) and call record
    bid_book, ask_book, me_call,
    \* ---- Accounting (src/include/Accounting.h:136-145) and call record
    initial_capital_, cash_, position_, cost_basis_, realized_pnl_,
    unrealized_pnl_, total_fees_, total_rebates_, mark_price_, fees_, ac_call,
    \* ---- MarketMaker (src/unnamed/part_009:44-55), the event it is handling,
    \* ---- its position in on_market_data, and the record of the call
    active_orders, last_processed_sequence, order_counter, total_fills,
    md_event, mm_pc, fill_index, mm_call,
    \* ---- MarketSimulator (src/MarketSimulator.h:20-50): the simulator that
    \* ---- writes the event log, a second instance built from the same
    \* ---- configuration, the simulator that replays the log, the log file,
    \* ---- the events the first instance returned, the wall clock of the
    \* ---- machine, and the record of the last call
    sim, twin, replay, event_log, emitted, wall_clock, sim_call,
    \* ---- WsSession (WsSession.cpp): the outbound queue
    \* ---- (wsproto::OutboundQueueState), the session with its executor and
    \* ---- its simulation tasks, and the record of the wsproto calls
    outbound_, session, ws_call,
    \* ---- AvellanedaStoikovStrategy (src/strategies/AvellanedaStoikovStrategy.h:
    \* ---- 32-35): its configuration, its two rolling estimators, and the
    \* ---- record of the compute_quotes calls
    config_, vol_estimator_, ofi_estimator_, st_call

rm_vars == <<state_, last_results_, high_water_mark_, drawdown_, hwm_initialized_,
             quote_timestamps_, cancel_timestamps_, breach_timestamp_,
             breach_timestamp_set_, last_md_timestamp_, last_md_timestamp_set_>>
me_vars == <<bid_book, ask_book>>
ac_vars == <<initial_capital_, cash_, position_, cost_basis_, realized_pnl_,
             unrealized_pnl_, total_fees_, total_rebates_, mark_price_, fees_>>
mm_vars == <<active_orders, last_processed_sequence, order_counter, total_fills,
             md_event, mm_pc, fill_index, mm_call>>
sim_vars == <<sim, twin, replay, event_log, emitted, wall_clock, sim_call>>
ws_vars == <<outbound_, session, ws_call>>
st_vars == <<config_, vol_estimator_, ofi_estimator_, st_call>>
io_vars == <<sim_vars, ws_vars, st_vars>>
vars == <<rm_vars, clock, rm_call, calls, me_vars, me_call, ac_vars, ac_call, mm_vars,
          io_vars>>

----------------------------------------------------------------------------
(* Exact rational arithmetic standing for C++ double arithmetic.           *)

Abs(x) == IF x < 0 THEN -x ELSE x

Min(a, b) == IF a < b THEN a ELSE b

RECURSIVE GCD(_, _)
GCD(a, b) == IF b = 0 THEN a ELSE GCD(b, a % b)

\* n/d in lowest terms with a positive denominator (d # 0)
Frac(n, d) ==
    LET g == GCD(Abs(n), Abs(d))
        s == IF d < 0 THEN -1 ELSE 1
    IN  [n |-> s * (IF n < 0 THEN -(Abs(n) \div g) ELSE Abs(n) \div g),
         d |-> Abs(d) \div g]

FromInt(i) == [n |-> i, d |-> 1]
FZero == FromInt(0)
FAdd(a, b) == Frac(a.n * b.d + b.n * a.d, a.d * b.d)
FSub(a, b) == Frac(a.n * b.d - b.n * a.d, a.d * b.d)
FMul(a, b) == Frac(a.n * b.n, a.d * b.d)
FMulInt(a, i) == Frac(a.n * i, a.d)
FDivInt(a, i) == Frac(a.n, a.d * i)
FDiv(a, b) == Frac(a.n * b.d, a.d * b.n)
FLt(a, b) == a.n * b.d < b.n * a.d
FGe(a, b) == a.n * b.d >= b.n * a.d
FGt(a, b) == a.n * b.d > b.n * a.d

----------------------------------------------------------------------------
(* RiskManager                                                             *)

\* enum class RiskState { Normal, Warning, Breached, KillSwitch } as ints
Severity(s) ==
    CASE s = "Normal" -> 0
      [] s = "Warning" -> 1
      [] s = "Breached" -> 2
      [] s = "KillSwitch" -> 3

\* RiskConfig of the modelled run (every field is configurable; times in ms)
max_net_position == 2
max_notional_exposure == 4
max_drawdown == 2
max_quotes_per_second == 2000
max_cancels_per_second == 2000
rate_window_ms == 1
max_stale_data_ms == 3
warning_threshold_num == 1
warning_threshold_den == 2
cooldown_ms == 2
max_quote_spread == 2

min_quote_size == 1
max_quote_size == 2

warning_threshold_pct == Frac(warning_threshold_num, warning_threshold_den)

\* bound of the explored runs: calls made by the driver
MaxCalls == 4

\* risk manager, kill-switch runs: calls per explored run
MaxDwellCalls == 7

\* bounds of the explored order books: calls, prices, quantities, creation times
MaxBookCalls == 4
MaxPrice == 2
MaxQty == 2
MaxCreatedAt == 1

\* market maker: events per explored run
MaxTicks == 4

\* accounting: calls per explored run, and the largest fill price and quantity
MaxAcctCalls == 3
MaxFillPrice == 2
MaxFillQty == 2

classify(ratio) ==
    IF FGe(ratio, FromInt(1)) THEN "Breached"
    ELSE IF FGe(ratio, warning_threshold_pct) THEN "Warning"
    ELSE "Normal"

RiskRuleResult(id, level, current, limit, tag) ==
    [rule_id |-> id, level |-> level, current_value |-> current,
     limit_value |-> limit, tag |-> tag]

eval_max_net_position(acct) ==
    LET current == FromInt(Abs(acct.position))
        limit == FromInt(max_net_position)
    IN  RiskRuleResult("MaxNetPosition", classify(FDiv(current, limit)),
                       current, limit, "net_position")

\* Accounting::gross_exposure(mark_price) = |position| * mark_price
gross_exposure(position, mark_price) == FMulInt(mark_price, Abs(position))

eval_max_notional_exposure(acct, mark_price) ==
    LET current == gross_exposure(acct.position, mark_price)
        limit == FromInt(max_notional_exposure)
    IN  RiskRuleResult("MaxNotionalExposure", classify(FDiv(current, limit)),
                       current, limit, "gross_exposure")

\* the high-water mark after eval_max_drawdown has seen pnl
\* variant: the high-water mark follows the net P&L down as well
next_high_water_mark_tracks(pnl) == pnl

\* eval_max_drawdown: the high-water mark after this evaluation
next_high_water_mark(pnl) ==
    IF ~hwm_initialized_ THEN pnl
    ELSE IF FGt(pnl, high_water_mark_) THEN pnl
    ELSE high_water_mark_

eval_max_drawdown(acct) ==
    LET pnl == acct.net_pnl
        dd == FSub(next_high_water_mark(pnl), pnl)
        limit == FromInt(max_drawdown)
    IN  RiskRuleResult("MaxDrawdown", classify(FDiv(dd, limit)), dd, limit, "drawdown")

\* while (!q.empty() && q.front() < cutoff) q.pop_front();
RECURSIVE prune(_, _)
prune(q, cutoff) ==
    IF q # <<>> /\ Head(q) < cutoff THEN prune(Tail(q), cutoff) ELSE q

\* size / rate_window_seconds, per second
window_rate(q) == Frac(Len(q) * 1000, rate_window_ms)

eval_max_quote_rate(now) ==
    LET q == prune(quote_timestamps_, now - rate_window_ms)
        current == window_rate(q)
        limit == FromInt(max_quotes_per_second)
    IN  RiskRuleResult("MaxQuoteRate", classify(FDiv(current, limit)),
                       current, limit, "quote_rate")

eval_max_cancel_rate(now) ==
    LET q == prune(cancel_timestamps_, now - rate_window_ms)
        current == window_rate(q)
        limit == FromInt(max_cancels_per_second)
    IN  RiskRuleResult("MaxCancelRate", classify(FDiv(current, limit)),
                       current, limit, "cancel_rate")

eval_stale_market_data(md_ts) ==
    LET limit == FromInt(max_stale_data_ms) IN
    IF ~last_md_timestamp_set_
    THEN RiskRuleResult("StaleMarketData", "Normal", FZero, limit, "first_tick")
    ELSE LET current_ms == FromInt(md_ts - last_md_timestamp_)
         IN  RiskRuleResult("StaleMarketData", classify(FDiv(current_ms, limit)),
                            current_ms, limit, "stale_ms")

eval_max_quote_spread(md) ==
    LET spread == FSub(md.best_ask_price, md.best_bid_price)
        limit == FromInt(max_quote_spread)
    IN  RiskRuleResult("MaxQuoteSpread", classify(FDiv(spread, limit)),
                       spread, limit, "spread")

\* the seven rule results of one tick, in evaluation order
rule_results(acct, md, mark_price) ==
    << eval_max_net_position(acct),
       eval_max_notional_exposure(acct, mark_price),
       eval_max_drawdown(acct),
       eval_max_quote_rate(md.timestamp),
       eval_max_cancel_rate(md.timestamp),
       eval_stale_market_data(md.timestamp),
       eval_max_quote_spread(md) >>

\* worst level across a vector of results, starting from Normal
RECURSIVE worst_of(_, _)
worst_of(results, worst) ==
    IF results = <<>> THEN worst
    ELSE worst_of(Tail(results),
                  IF Severity(Head(results).level) > Severity(worst)
                  THEN Head(results).level ELSE worst)

\* elapsed.count() >= config_.cooldown_seconds
cooldown_elapsed(ts) == ts - breach_timestamp_ >= cooldown_ms

\* variant: Breached recovers to Normal on any tick without a breach
next_state_recovers_unless_breached(worst, ts) ==
    CASE state_ \in {"Normal", "Warning"} -> worst
      [] state_ = "Breached" ->
            IF worst # "Breached" /\ breach_timestamp_set_ /\ cooldown_elapsed(ts)
            THEN "Normal" ELSE "Breached"
      [] state_ = "KillSwitch" -> "KillSwitch"

\* variant: recovery from Breached follows worst once the cooldown has elapsed
next_state_follows_worst(worst, ts) ==
    CASE state_ \in {"Normal", "Warning"} -> worst
      [] state_ = "Breached" ->
            IF worst # "Breached" /\ breach_timestamp_set_ /\ cooldown_elapsed(ts)
            THEN worst ELSE "Breached"
      [] state_ = "KillSwitch" -> "KillSwitch"

\* the switch on state_ in evaluate: the next state
next_state(worst, ts) ==
    CASE state_ \in {"Normal", "Warning"} -> worst
      [] state_ = "Breached" ->
            IF worst = "Normal" /\ breach_timestamp_set_ /\ cooldown_elapsed(ts)
            THEN "Normal" ELSE "Breached"
      [] state_ = "KillSwitch" -> "KillSwitch"

\* variant: the breach timestamp is never latched
latches_breach_never(worst) == FALSE

\* evaluate latches the breach timestamp on this tick
latches_breach(worst) == state_ \in {"Normal", "Warning"} /\ worst = "Breached"

\* variant: evaluate runs the rules in every state
evaluate_is_noop_never == FALSE

\* if (state_ == RiskState::KillSwitch) return state_;
evaluate_is_noop == state_ = "KillSwitch"

\* rm_call records the last call on the manager: the operation, its event time,
\* the state it found, the worst level it computed, the state it returned, the
\* net P&L it was given, and of the calls so far: the event time of the latest
\* evaluate that returned Normal or Warning (NoEval before the first), whether
\* evaluate has been called, and whether an evaluate has run the rules
NoEval == -1

RM_evaluate(acct, md, mark_price) ==
    IF evaluate_is_noop
    THEN /\ rm_call' = [op |-> "evaluate", ts |-> md.timestamp,
                        from |-> state_,
                        worst |-> "none", ret |-> state_,
                        last_quoting_eval |-> rm_call.last_quoting_eval,
                        net_pnl |-> acct.net_pnl, evaluated |-> TRUE,
                        rules_ran |-> rm_call.rules_ran]
         /\ UNCHANGED rm_vars
    ELSE LET results == rule_results(acct, md, mark_price)
             worst == worst_of(results, "Normal")
         IN  /\ last_results_' = results
             /\ high_water_mark_' = next_high_water_mark(acct.net_pnl)
             /\ hwm_initialized_' = TRUE
             /\ drawdown_' = results[3].current_value
             /\ quote_timestamps_' = prune(quote_timestamps_, md.timestamp - rate_window_ms)
             /\ cancel_timestamps_' = prune(cancel_timestamps_, md.timestamp - rate_window_ms)
             /\ last_md_timestamp_' = md.timestamp
             /\ last_md_timestamp_set_' = TRUE
             /\ state_' = next_state(worst, md.timestamp)
             /\ breach_timestamp_' =
                    IF latches_breach(worst) THEN md.timestamp ELSE breach_timestamp_
             /\ breach_timestamp_set_' = (breach_timestamp_set_ \/ latches_breach(worst))
             /\ rm_call' = [op |-> "evaluate", ts |-> md.timestamp, from |-> state_,
                            worst |-> worst, ret |-> state_',
                            last_quoting_eval |->
                                IF state_' \in {"Normal", "Warning"} THEN md.timestamp
                                ELSE rm_call.last_quoting_eval,
                            net_pnl |-> acct.net_pnl, evaluated |-> TRUE,
                            rules_ran |-> TRUE]

RM_engage_kill_switch ==
    /\ state_' = "KillSwitch"
    /\ rm_call' = [op |-> "engage_kill_switch", ts |-> clock, from |-> state_,
                   worst |-> "none",
                   ret |-> "KillSwitch",
                   last_quoting_eval |-> rm_call.last_quoting_eval,
                   net_pnl |-> FZero, evaluated |-> rm_call.evaluated,
                   rules_ran |-> rm_call.rules_ran]
    /\ UNCHANGED <<last_results_, high_water_mark_, drawdown_, hwm_initialized_,
                   quote_timestamps_, cancel_timestamps_, breach_timestamp_,
                   breach_timestamp_set_, last_md_timestamp_, last_md_timestamp_set_>>

\* variant: reset_kill_switch resumes at the worst cached level
reset_target_worst == worst_of(last_results_, "Normal")

\* the state reset_kill_switch moves to from KillSwitch
reset_target == IF worst_of(last_results_, "Normal") = "Normal" THEN "Normal" ELSE "Breached"

RM_reset_kill_switch ==
    /\ state_' = IF state_ # "KillSwitch" THEN state_ ELSE reset_target
    /\ rm_call' = [op |-> "reset_kill_switch", ts |-> clock, from |-> state_,
                   worst |-> "none",
                   ret |-> state_',
                   last_quoting_eval |-> rm_call.last_quoting_eval,
                   net_pnl |-> FZero, evaluated |-> rm_call.evaluated,
                   rules_ran |-> rm_call.rules_ran]
    /\ UNCHANGED <<last_results_, high_water_mark_, drawdown_, hwm_initialized_,
                   quote_timestamps_, cancel_timestamps_, breach_timestamp_,
                   breach_timestamp_set_, last_md_timestamp_, last_md_timestamp_set_>>

\* variant: quoting is allowed in every state but KillSwitch
is_quoting_allowed_unless_kill == state_ # "KillSwitch"

\* return state_ == RiskState::Normal || state_ == RiskState::Warning;
is_quoting_allowed == state_ = "Normal" \/ state_ = "Warning"

RM_record_quote(ts) ==
    /\ quote_timestamps_' = Append(quote_timestamps_, ts)
    /\ rm_call' = [op |-> "record_quote", ts |-> ts, from |-> state_,
                   worst |-> "none", ret |-> state_,
                   last_quoting_eval |-> rm_call.last_quoting_eval,
                   net_pnl |-> FZero, evaluated |-> rm_call.evaluated,
                   rules_ran |-> rm_call.rules_ran]
    /\ UNCHANGED <<state_, last_results_, high_water_mark_, drawdown_, hwm_initialized_,
                   cancel_timestamps_, breach_timestamp_,
                   breach_timestamp_set_, last_md_timestamp_, last_md_timestamp_set_>>

RM_record_cancel(ts) ==
    /\ cancel_timestamps_' = Append(cancel_timestamps_, ts)
    /\ rm_call' = [op |-> "record_cancel", ts |-> ts, from |-> state_,
                   worst |-> "none", ret |-> state_,
                   last_quoting_eval |-> rm_call.last_quoting_eval,
                   net_pnl |-> FZero, evaluated |-> rm_call.evaluated,
                   rules_ran |-> rm_call.rules_ran]
    /\ UNCHANGED <<state_, last_results_, high_water_mark_, drawdown_, hwm_initialized_,
                   quote_timestamps_, breach_timestamp_,
                   breach_timestamp_set_, last_md_timestamp_, last_md_timestamp_set_>>

----------------------------------------------------------------------------
(* MatchingEngine                                                          *)

\* Order::Order(id, side, price, qty, ts): status NEW, leaves = original
Order(id, side, price, qty, ts) ==
    [order_id |-> id, side |-> side, price |-> price, original_qty |-> qty,
     leaves_qty |-> qty, status |-> "NEW", created_at |-> ts, updated_at |-> ts]

FillEvent(order_id, trade_id, side, price, fill_qty, leaves_qty, timestamp) ==
    [order_id |-> order_id, trade_id |-> trade_id, side |-> side, price |-> price,
     fill_qty |-> fill_qty, leaves_qty |-> leaves_qty, timestamp |-> timestamp]

\* variant: bids compared ascending by price
bid_before_ascending(existing, incoming) ==
    IF existing.price # incoming.price
    THEN FLt(existing.price, incoming.price)
    ELSE existing.created_at < incoming.created_at

\* insert_bid's comparator: descending by price, then ascending by time
bid_before(existing, incoming) ==
    IF existing.price # incoming.price
    THEN FGt(existing.price, incoming.price)
    ELSE existing.created_at < incoming.created_at

\* variant: asks at one price compared latest first
ask_before_latest_first(existing, incoming) ==
    IF existing.price # incoming.price
    THEN FLt(existing.price, incoming.price)
    ELSE existing.created_at > incoming.created_at

\* insert_ask's comparator: ascending by price, then ascending by time
ask_before(existing, incoming) ==
    IF existing.price # incoming.price
    THEN FLt(existing.price, incoming.price)
    ELSE existing.created_at < incoming.created_at

before(side, existing, incoming) ==
    IF side = "BUY" THEN bid_before(existing, incoming)
    ELSE ask_before(existing, incoming)

\* std::lower_bound(book.begin(), book.end(), order, comp): binary search for
\* the first position (1-based) whose element is not before the order
RECURSIVE lower_bound(_, _, _, _)
lower_bound(book, order, first, len) ==
    IF len <= 0 THEN first
    ELSE LET half == len \div 2
             mid == first + half
         IN  IF before(order.side, book[mid], order)
             THEN lower_bound(book, order, mid + 1, len - half - 1)
             ELSE lower_bound(book, order, first, half)

\* book.insert(it, order) with it at 1-based position pos
insert_at(book, pos, order) ==
    SubSeq(book, 1, pos - 1) \o <<order>> \o SubSeq(book, pos, Len(book))

insert_bid(order) == insert_at(bid_book, lower_bound(bid_book, order, 1, Len(bid_book)), order)

insert_ask(order) == insert_at(ask_book, lower_bound(ask_book, order, 1, Len(ask_book)), order)

\* book.erase(it) with it at 1-based position pos
erase_at(book, pos) == SubSeq(book, 1, pos - 1) \o SubSeq(book, pos + 1, Len(book))

\* variant: the search stops at the first order whose id is not smaller
RECURSIVE find_order_at_least(_, _, _)
find_order_at_least(book, order_id, i) ==
    IF i > Len(book) THEN 0
    ELSE IF book[i].order_id >= order_id THEN i
    ELSE find_order_at_least(book, order_id, i + 1)

\* 1-based position of the first order with this id, 0 if none
RECURSIVE find_order(_, _, _)
find_order(book, order_id, i) ==
    IF i > Len(book) THEN 0
    ELSE IF book[i].order_id = order_id THEN i
    ELSE find_order(book, order_id, i + 1)

NoFills == <<>>

\* the last call on the engine: its arguments, what it returned, and the two
\* books as the call found them
ME_call(op, side, price, qty, id, status, found, fills) ==
    [op |-> op, side |-> side, price |-> price, qty |-> qty, order_id |-> id,
     status |-> status, found |-> found, fills |-> fills,
     bids |-> bid_book, asks |-> ask_book]

\* variant: only the quantity is checked
add_order_rejects_quantity_only(order) == order.leaves_qty <= 0

\* if (order.leaves_qty <= 0 || order.price <= 0.0) -> REJECTED
add_order_rejects(order) == order.leaves_qty <= 0 \/ ~FGt(order.price, FZero)

ME_add_order(order) ==
    IF add_order_rejects(order)
    THEN /\ UNCHANGED <<bid_book, ask_book>>
         /\ me_call' = ME_call("add_order", order.side, order.price, order.leaves_qty,
                               order.order_id, "REJECTED", FALSE, NoFills)
    ELSE LET acked == [order EXCEPT !.status = "ACKNOWLEDGED"]
         IN  /\ bid_book' = IF order.side = "BUY" THEN insert_bid(acked) ELSE bid_book
             /\ ask_book' = IF order.side = "BUY" THEN ask_book ELSE insert_ask(acked)
             /\ me_call' = ME_call("add_order", order.side, order.price,
                                   order.leaves_qty, order.order_id, "ACKNOWLEDGED",
                                   FALSE, NoFills)

ME_cancel_order(order_id) ==
    LET b == find_order(bid_book, order_id, 1)
        a == find_order(ask_book, order_id, 1)
    IN  /\ bid_book' = IF b > 0 THEN erase_at(bid_book, b) ELSE bid_book
        /\ ask_book' = IF b = 0 /\ a > 0 THEN erase_at(ask_book, a) ELSE ask_book
        /\ me_call' = ME_call("cancel_order", "none", FZero, 0, order_id, "none",
                              b > 0 \/ a > 0, NoFills)

\* the price test that ends the walk
price_incompatible(aggressor_side, maker_price, price) ==
    \/ aggressor_side = "BUY" /\ FGt(maker_price, price)
    \/ aggressor_side = "SELL" /\ FLt(maker_price, price)

\* variant: the fill is priced at the aggressor's limit
fill_price_at_limit(maker, price) == price

\* the price a FillEvent carries: it->price
fill_price(maker, price) == maker.price

\* variant: every fill takes the whole resting quantity
fill_quantity_whole(remaining, leaves) == leaves

\* int fill_qty = std::min(remaining, it->leaves_qty)
fill_quantity(remaining, leaves) == Min(remaining, leaves)

\* variant: a maker filled to zero stays in the book
maker_is_erased_never(leaves) == FALSE

\* if (it->leaves_qty == 0) it = passive_book.erase(it);
maker_is_erased(leaves) == leaves = 0

\* the while loop of match_incoming_order from iterator position i on
RECURSIVE match_walk(_, _, _, _, _, _, _, _)
match_walk(book, i, remaining, fills, aggressor_side, price, trade_id, timestamp) ==
    IF i > Len(book) \/ remaining <= 0
        \/ price_incompatible(aggressor_side, book[i].price, price)
    THEN [book |-> book, fills |-> fills]
    ELSE LET fill_qty == fill_quantity(remaining, book[i].leaves_qty)
             leaves == book[i].leaves_qty - fill_qty
             maker == [book[i] EXCEPT !.leaves_qty = leaves,
                                      !.updated_at = timestamp,
                                      !.status = IF leaves = 0 THEN "FILLED"
                                                 ELSE "PARTIALLY_FILLED"]
             fill == FillEvent(maker.order_id, trade_id, maker.side,
                               fill_price(maker, price), fill_qty, leaves, timestamp)
         IN  IF maker_is_erased(leaves)
             THEN match_walk(erase_at(book, i), i, remaining - fill_qty,
                             Append(fills, fill), aggressor_side, price, trade_id,
                             timestamp)
             ELSE match_walk([book EXCEPT ![i] = maker], i + 1, remaining - fill_qty,
                             Append(fills, fill), aggressor_side, price, trade_id,
                             timestamp)

ME_match_incoming_order(aggressor_side, price, qty, trade_id, timestamp) ==
    LET passive == IF aggressor_side = "BUY" THEN ask_book ELSE bid_book
        r == match_walk(passive, 1, qty, NoFills, aggressor_side, price, trade_id,
                        timestamp)
    IN  /\ ask_book' = IF aggressor_side = "BUY" THEN r.book ELSE ask_book
        /\ bid_book' = IF aggressor_side = "BUY" THEN bid_book ELSE r.book
        /\ me_call' = ME_call("match_incoming_order", aggressor_side, price, qty,
                              trade_id, "none", FALSE, r.fills)

----------------------------------------------------------------------------
(* Accounting (Accounting.h).                                               *)

\* FeeSchedule{}: the default schedule charges nothing
FeeSchedule(maker_rebate_per_share, taker_fee_per_share, fee_bps) ==
    [maker_rebate_per_share |-> maker_rebate_per_share,
     taker_fee_per_share |-> taker_fee_per_share, fee_bps |-> fee_bps]

\* cost_basis_ / std::abs(position_), 0.0 when flat
avg_entry_price_of(position, cost_basis) ==
    IF position = 0 THEN FZero ELSE FDivInt(cost_basis, Abs(position))

avg_entry_price == avg_entry_price_of(position_, cost_basis_)

\* the net fee on_fill adds to total_fees_
fill_fee(notional, qty, is_maker) ==
    LET fee == FMul(notional, FDivInt(fees_.fee_bps, 10000))
    IN  IF is_maker THEN FSub(fee, FMulInt(fees_.maker_rebate_per_share, qty))
        ELSE FAdd(fee, FMulInt(fees_.taker_fee_per_share, qty))

\* variant: every fill earns the rebate
fill_rebate_any_fill(qty, is_maker) == FMulInt(fees_.maker_rebate_per_share, qty)

\* the rebate on_fill adds to total_rebates_
fill_rebate(qty, is_maker) ==
    IF is_maker THEN FMulInt(fees_.maker_rebate_per_share, qty) ELSE FZero

\* variant: a flip adds the residual to the old cost basis
flip_cost_basis_accumulates(price, open_qty) ==
    FAdd(cost_basis_, FMulInt(price, open_qty))

\* cost_basis_ = price * open_qty
flip_cost_basis(price, open_qty) == FMulInt(price, open_qty)

\* variant: a close writes off the whole cost basis
close_cost_basis_whole(avg_entry, close_qty) ==
    FSub(cost_basis_, FMulInt(avg_entry, Abs(position_)))

\* cost_basis_ -= avg_entry * close_qty
close_cost_basis(avg_entry, close_qty) ==
    FSub(cost_basis_, FMulInt(avg_entry, close_qty))

\* variant: a short is marked like a long
unrealized_at_as_long(position, cost_basis, mark_price) ==
    IF position = 0 THEN FZero
    ELSE FMulInt(FSub(mark_price, avg_entry_price_of(position, cost_basis)),
                 Abs(position))

\* unrealized_pnl_ as mark_to_market computes it for a position and cost basis
unrealized_at(position, cost_basis, mark_price) ==
    LET avg == avg_entry_price_of(position, cost_basis)
    IN  IF position > 0 THEN FMulInt(FSub(mark_price, avg), position)
        ELSE IF position < 0 THEN FMulInt(FSub(avg, mark_price), -position)
        ELSE FZero

\* what the call found: recorded with the call
AC_call(op, side, price, qty, is_maker) ==
    [op |-> op, side |-> side, price |-> price, qty |-> qty, is_maker |-> is_maker,
     position |-> position_, cost_basis |-> cost_basis_,
     realized_pnl |-> realized_pnl_, total_fees |-> total_fees_,
     total_rebates |-> total_rebates_]

AC_on_fill(side, price, qty, is_maker) ==
    LET notional == FMulInt(price, qty)
        closing == IF side = "BUY" THEN position_ < 0 ELSE position_ > 0
        close_qty == Min(qty, Abs(position_))
        open_qty == qty - close_qty
        avg_entry == avg_entry_price
        realized == IF side = "BUY" THEN FMulInt(FSub(avg_entry, price), close_qty)
                    ELSE FMulInt(FSub(price, avg_entry), close_qty)
        position == IF side = "BUY" THEN position_ + qty ELSE position_ - qty
        cost_basis == IF ~closing THEN FAdd(cost_basis_, notional)
                      ELSE IF open_qty > 0 THEN flip_cost_basis(price, open_qty)
                      ELSE close_cost_basis(avg_entry, close_qty)
        clean == IF position = 0 THEN FZero ELSE cost_basis
    IN  /\ total_rebates_' = FAdd(total_rebates_, fill_rebate(qty, is_maker))
        /\ total_fees_' = FAdd(total_fees_, fill_fee(notional, qty, is_maker))
        /\ cash_' = IF side = "BUY" THEN FSub(cash_, notional) ELSE FAdd(cash_, notional)
        /\ realized_pnl_' = IF closing THEN FAdd(realized_pnl_, realized)
                            ELSE realized_pnl_
        /\ position_' = position
        /\ cost_basis_' = clean
        /\ mark_price_' = price
        /\ unrealized_pnl_' = unrealized_at(position, clean, price)
        /\ ac_call' = AC_call("on_fill", side, price, qty, is_maker)
        /\ UNCHANGED <<initial_capital_, fees_>>

AC_mark_to_market(mark_price) ==
    /\ mark_price_' = mark_price
    /\ unrealized_pnl_' = unrealized_at(position_, cost_basis_, mark_price)
    /\ ac_call' = AC_call("mark_to_market", "none", mark_price, 0, FALSE)
    /\ UNCHANGED <<initial_capital_, cash_, position_, cost_basis_, realized_pnl_,
                   total_fees_, total_rebates_, fees_>>

AC_reset_daily ==
    /\ realized_pnl_' = FZero
    /\ unrealized_pnl_' = FZero
    /\ total_fees_' = FZero
    /\ total_rebates_' = FZero
    /\ ac_call' = AC_call("reset_daily", "none", FZero, 0, FALSE)
    /\ UNCHANGED <<initial_capital_, cash_, position_, cost_basis_, mark_price_, fees_>>

\* realized_pnl_ + unrealized_pnl_
total_pnl == FAdd(realized_pnl_, unrealized_pnl_)

\* total_pnl() - total_fees_ + total_rebates_
net_pnl == FAdd(FSub(total_pnl, total_fees_), total_rebates_)

----------------------------------------------------------------------------
(* Initial state: every object freshly constructed.                        *)

RM_Init ==
    /\ state_ = "Normal"
    /\ last_results_ = <<>>
    /\ high_water_mark_ = FZero
    /\ drawdown_ = FZero
    /\ hwm_initialized_ = FALSE
    /\ quote_timestamps_ = <<>>
    /\ cancel_timestamps_ = <<>>
    /\ breach_timestamp_ = 0
    /\ breach_timestamp_set_ = FALSE
    /\ last_md_timestamp_ = 0
    /\ last_md_timestamp_set_ = FALSE
    /\ rm_call = [op |-> "init", ts |-> 0, from |-> "Normal", worst |-> "none",
                  ret |-> "Normal", last_quoting_eval |-> NoEval,
                  net_pnl |-> FZero, evaluated |-> FALSE, rules_ran |-> FALSE]

ME_Init ==
    /\ bid_book = <<>>
    /\ ask_book = <<>>
    /\ me_call = [op |-> "init", side |-> "none", price |-> FZero, qty |-> 0,
                  order_id |-> 0, status |-> "none", found |-> FALSE,
                  fills |-> NoFills, bids |-> <<>>, asks |-> <<>>]

\* Accounting(initial_capital, fees)
AC_Construct(initial_capital, fees) ==
    /\ initial_capital_ = initial_capital
    /\ cash_ = initial_capital
    /\ position_ = 0
    /\ cost_basis_ = FZero
    /\ realized_pnl_ = FZero
    /\ unrealized_pnl_ = FZero
    /\ total_fees_ = FZero
    /\ total_rebates_ = FZero
    /\ mark_price_ = FZero
    /\ fees_ = fees
    /\ ac_call = [op |-> "init", side |-> "none", price |-> FZero, qty |-> 0,
                  is_maker |-> FALSE, position |-> 0, cost_basis |-> FZero,
                  realized_pnl |-> FZero, total_fees |-> FZero,
                  total_rebates |-> FZero]

AC_Init == AC_Construct(FZero, FeeSchedule(FZero, FZero, FZero))

\* MarketDataEvent as on_market_data reads it: sequence number, timestamp,
\* best prices, the two level vectors and the fills of resting orders
MarketDataEvent(sequence_number, timestamp, bid_levels, ask_levels, mm_fills) ==
    [sequence_number |-> sequence_number, timestamp |-> timestamp,
     best_bid_price |-> IF bid_levels = <<>> THEN FZero ELSE bid_levels[1].price,
     best_ask_price |-> IF ask_levels = <<>> THEN FZero ELSE ask_levels[1].price,
     bid_levels |-> bid_levels, ask_levels |-> ask_levels, mm_fills |-> mm_fills]

\* the record of an on_market_data call as it starts
MM_call(path, event) ==
    [path |-> path, ts |-> event.timestamp, mm_fills |-> event.mm_fills,
     active |-> active_orders, position_entry |-> position_,
     applied |-> <<>>, evaluated |-> FALSE, eval_applied |-> 0,
     after_fills |-> active_orders, cancelled |-> {}, recorded |-> 0]

\* MarketMaker::MarketMaker: no active order, nothing processed
MM_Init ==
    /\ active_orders = <<>>
    /\ last_processed_sequence = 0
    /\ order_counter = 0
    /\ total_fills = 0
    /\ md_event = MarketDataEvent(0, 0, <<>>, <<>>, <<>>)
    /\ mm_pc = "idle"
    /\ fill_index = 1
    /\ mm_call = [path |-> "init", ts |-> 0, mm_fills |-> <<>>, active |-> <<>>,
                  position_entry |-> 0, applied |-> <<>>, evaluated |-> FALSE,
                  eval_applied |-> 0, after_fills |-> <<>>, cancelled |-> {},
                  recorded |-> 0]

\* no simulator has been constructed
NoSimulator == [mode |-> "none"]

SIM_Init ==
    /\ sim = NoSimulator
    /\ twin = NoSimulator
    /\ replay = NoSimulator
    /\ event_log = <<>>
    /\ emitted = <<>>
    /\ wall_clock = 0
    /\ sim_call = [op |-> "init"]

\* no session has been accepted
NoSession == [open |-> FALSE]

WS_Init ==
    /\ outbound_ = [queue |-> <<>>, write_in_progress |-> FALSE]
    /\ session = NoSession
    /\ ws_call = [op |-> "init", arg |-> "none", ret |-> "none", pre |-> "none",
                  post |-> "none",
                  enqueued |-> <<>>, started |-> <<>>, popped |-> 0]

\* no strategy has been constructed
NoStrategy == [constructed |-> FALSE]

ST_Init ==
    /\ config_ = NoStrategy
    /\ vol_estimator_ = NoStrategy
    /\ ofi_estimator_ = NoStrategy
    /\ st_call = [op |-> "init"]

IO_Init == SIM_Init /\ WS_Init /\ ST_Init

Init == RM_Init /\ ME_Init /\ AC_Init /\ MM_Init /\ IO_Init /\ clock = 0 /\ calls = 0

----------------------------------------------------------------------------
(* Risk manager driven by an arbitrary caller with a monotone event clock. *)

\* best bid of every explored tick
BestBidIn == FromInt(10)

\* Inputs of one tick: a quiet tick (flat, no P&L, zero spread) or a tick that
\* moves exactly one of position, net P&L and quoted spread off the quiet value;
\* the mark price matters only with a position.
TickIn ==
    { in \in [position : (-max_net_position)..max_net_position,
              pnl : (-max_drawdown)..0,
              mark : 1..(max_notional_exposure \div max_net_position),
              spread : 0..max_quote_spread] :
        /\ Cardinality({f \in {"position", "pnl", "spread"} : in[f] # 0}) <= 1
        /\ (in.position = 0 => in.mark = 1) }

\* one more call by the driver, within the explored run length
Call == calls < MaxCalls /\ calls' = calls + 1

Evaluate ==
    \E d \in 0..cooldown_ms, in \in TickIn :
        /\ Call
        /\ clock' = clock + d
        /\ RM_evaluate([position |-> in.position, net_pnl |-> FromInt(in.pnl)],
                       [timestamp |-> clock + d, best_bid_price |-> BestBidIn,
                        best_ask_price |-> FAdd(BestBidIn, FromInt(in.spread))],
                       FromInt(in.mark))
        /\ UNCHANGED <<me_vars, me_call, ac_vars, ac_call, mm_vars, io_vars>>

EngageKillSwitch ==
    /\ Call
    /\ RM_engage_kill_switch
    /\ UNCHANGED <<clock, me_vars, me_call, ac_vars, ac_call, mm_vars, io_vars>>

ResetKillSwitch ==
    /\ Call
    /\ RM_reset_kill_switch
    /\ UNCHANGED <<clock, me_vars, me_call, ac_vars, ac_call, mm_vars, io_vars>>

RecordQuote ==
    /\ Call
    /\ RM_record_quote(clock)
    /\ UNCHANGED <<clock, me_vars, me_call, ac_vars, ac_call, mm_vars, io_vars>>

RecordCancel ==
    /\ Call
    /\ RM_record_cancel(clock)
    /\ UNCHANGED <<clock, me_vars, me_call, ac_vars, ac_call, mm_vars, io_vars>>

NextRisk == Evaluate \/ EngageKillSwitch \/ ResetKillSwitch \/ RecordQuote \/ RecordCancel

SpecRisk == Init /\ [][NextRisk]_vars

----------------------------------------------------------------------------
(* Risk manager driven through evaluate, engage_kill_switch and             *)
(* reset_kill_switch alone, over longer runs: the position is the only      *)
(* stressed input.                                                          *)

DwellTickIn ==
    { in \in TickIn : in.position >= 0 /\ in.pnl = 0 /\ in.spread = 0 /\ in.mark = 1 }

DwellCall == calls < MaxDwellCalls /\ calls' = calls + 1

DwellEvaluate ==
    \E d \in 0..cooldown_ms, in \in DwellTickIn :
        /\ DwellCall
        /\ clock' = clock + d
        /\ RM_evaluate([position |-> in.position, net_pnl |-> FromInt(in.pnl)],
                       [timestamp |-> clock + d, best_bid_price |-> BestBidIn,
                        best_ask_price |-> FAdd(BestBidIn, FromInt(in.spread))],
                       FromInt(in.mark))
        /\ UNCHANGED <<me_vars, me_call, ac_vars, ac_call, mm_vars, io_vars>>

DwellEngageKillSwitch ==
    /\ DwellCall
    /\ RM_engage_kill_switch
    /\ UNCHANGED <<clock, me_vars, me_call, ac_vars, ac_call, mm_vars, io_vars>>

DwellResetKillSwitch ==
    /\ DwellCall
    /\ RM_reset_kill_switch
    /\ UNCHANGED <<clock, me_vars, me_call, ac_vars, ac_call, mm_vars, io_vars>>

NextDwell == DwellEvaluate \/ DwellEngageKillSwitch \/ DwellResetKillSwitch

SpecDwell == Init /\ [][NextDwell]_vars

----------------------------------------------------------------------------
(* Matching engine driven through add_order, cancel_order and              *)
(* match_incoming_order; order ids are unique, as the callers generate     *)
(* them from counters.                                                     *)

BookCall == calls < MaxBookCalls /\ calls' = calls + 1

Sides == {"BUY", "SELL"}

AddOrder ==
    \E side \in Sides, price \in 1..MaxPrice, qty \in 1..MaxQty, ts \in 0..MaxCreatedAt :
        /\ BookCall
        /\ ME_add_order(Order(calls + 1, side, FromInt(price), qty, ts))
        /\ UNCHANGED <<rm_vars, rm_call, clock, ac_vars, ac_call, mm_vars, io_vars>>

\* orders add_order must reject: a quantity or a price that is zero or
\* negative, or both
AddInvalidOrder ==
    \E side \in Sides, price \in (-1)..1, qty \in (-1)..1 :
        /\ BookCall
        /\ price <= 0 \/ qty <= 0
        /\ ME_add_order(Order(calls + 1, side, FromInt(price), qty, 0))
        /\ UNCHANGED <<rm_vars, rm_call, clock, ac_vars, ac_call, mm_vars, io_vars>>

CancelOrder ==
    \E order_id \in 1..MaxBookCalls :
        /\ BookCall
        /\ ME_cancel_order(order_id)
        /\ UNCHANGED <<rm_vars, rm_call, clock, ac_vars, ac_call, mm_vars, io_vars>>

MatchIncomingOrder ==
    \E side \in Sides, price \in 0..MaxPrice, qty \in (-1)..MaxQty :
        /\ BookCall
        /\ clock' = clock + 1
        /\ ME_match_incoming_order(side, FromInt(price), qty, calls + 1, clock + 1)
        /\ UNCHANGED <<rm_vars, rm_call, ac_vars, ac_call, mm_vars, io_vars>>

NextBook == AddOrder \/ AddInvalidOrder \/ CancelOrder \/ MatchIncomingOrder

SpecBook == Init /\ [][NextBook]_vars

----------------------------------------------------------------------------
(* Properties of the risk state machine, checked under SpecRisk.           *)

RuleLevels == {"Normal", "Warning", "Breached"}

\* the most severe level among a vector of rule results (Normal if empty)
WorstLevel(results) ==
    CHOOSE l \in RuleLevels :
        /\ \A i \in DOMAIN results : Severity(results[i].level) <= Severity(l)
        /\ (l # "Normal" => \E i \in DOMAIN results : results[i].level = l)

AllNormal(results) == \A i \in DOMAIN results : results[i].level = "Normal"

\* C1: in Breached, evaluate moves to Normal only when the event is at least the
\* cooldown after the latched breach timestamp and the worst of the seven rule
\* results of the tick is Normal (and it does move then); otherwise the state
\* stays Breached; Breached never moves directly to Warning.
C1_BreachedRecovery ==
    [][ (state_ = "Breached" /\ rm_call'.op = "evaluate") =>
          /\ Len(last_results_') = 7
          /\ state_' \in {"Breached", "Normal"}
          /\ (state_' = "Normal" <=>
                 /\ breach_timestamp_set_
                 /\ rm_call'.ts - breach_timestamp_ >= cooldown_ms
                 /\ WorstLevel(last_results_') = "Normal") ]_vars

\* a recovery: evaluate took Breached to Normal; and a refused recovery after
\* the cooldown because one rule was still at Warning
C1_Witness ==
    /\ rm_call.op = "evaluate" /\ rm_call.from = "Breached"
    /\ state_ = "Normal" /\ rm_call.ts - breach_timestamp_ >= cooldown_ms

C1_WitnessWarningStays ==
    /\ rm_call.op = "evaluate" /\ rm_call.from = "Breached"
    /\ state_ = "Breached" /\ breach_timestamp_set_
    /\ rm_call.ts - breach_timestamp_ >= cooldown_ms
    /\ WorstLevel(last_results_) = "Warning"

\* C2: from KillSwitch only reset_kill_switch leaves the state; engage_kill_switch
\* always enters it; evaluate in KillSwitch returns KillSwitch and changes nothing
\* (cached results, high-water mark, drawdown, stale-data reference, rate deques,
\* breach timestamp).
C2_KillSwitchSticky ==
    [][ /\ (rm_call'.op = "engage_kill_switch" => state_' = "KillSwitch")
        /\ (state_ = "KillSwitch" =>
              /\ (rm_call'.op # "reset_kill_switch" => state_' = "KillSwitch")
              /\ (rm_call'.op = "evaluate" =>
                    /\ rm_call'.ret = "KillSwitch"
                    /\ UNCHANGED <<last_results_, high_water_mark_, drawdown_,
                                   hwm_initialized_, last_md_timestamp_,
                                   last_md_timestamp_set_, quote_timestamps_,
                                   cancel_timestamps_, breach_timestamp_,
                                   breach_timestamp_set_>>)) ]_vars

\* evaluate was called in KillSwitch at a later event time than the cached
\* results, with timestamps waiting in a rate deque
C2_Witness ==
    /\ rm_call.op = "evaluate" /\ rm_call.from = "KillSwitch"
    /\ state_ = "KillSwitch"
    /\ last_md_timestamp_set_ /\ rm_call.ts > last_md_timestamp_
    /\ quote_timestamps_ # <<>>

\* C8: in Normal or Warning, evaluate sets the state to the worst level of the
\* seven rule results of the tick, and entering Breached latches the breach
\* timestamp to the event's timestamp.
C8_FollowWorst ==
    [][ (state_ \in {"Normal", "Warning"} /\ rm_call'.op = "evaluate") =>
          /\ Len(last_results_') = 7
          /\ state_' = WorstLevel(last_results_')
          /\ rm_call'.ret = state_'
          /\ (state_' = "Breached" =>
                 breach_timestamp_set_' /\ breach_timestamp_' = rm_call'.ts) ]_vars

\* a second breach: Breached entered from Warning at a later time than an
\* earlier latch
C8_Witness ==
    /\ rm_call.op = "evaluate" /\ rm_call.from = "Warning"
    /\ state_ = "Breached" /\ breach_timestamp_ = rm_call.ts /\ rm_call.ts > 0

\* C9: reset_kill_switch in KillSwitch moves to Normal if every cached rule
\* result is Normal (also when none is cached) and to Breached otherwise; in any
\* other state it changes nothing; it never touches the breach timestamp.
C9_ResetKillSwitch ==
    [][ rm_call'.op = "reset_kill_switch" =>
          /\ (state_ = "KillSwitch" =>
                 state_' = IF AllNormal(last_results_) THEN "Normal" ELSE "Breached")
          /\ (state_ # "KillSwitch" => state_' = state_)
          /\ UNCHANGED <<last_results_, high_water_mark_, drawdown_,
                         hwm_initialized_, last_md_timestamp_,
                         last_md_timestamp_set_, quote_timestamps_,
                         cancel_timestamps_, breach_timestamp_,
                         breach_timestamp_set_>> ]_vars

\* a reset that lands in Breached on a single cached Warning
C9_Witness ==
    /\ rm_call.op = "reset_kill_switch" /\ rm_call.from = "KillSwitch"
    /\ state_ = "Breached"
    /\ WorstLevel(last_results_) = "Warning"
    /\ Cardinality({i \in DOMAIN last_results_ : last_results_[i].level # "Normal"}) = 1

\* C10: after reset_kill_switch has left the manager in Breached, the next
\* evaluate that observes a Breached rule result sets the breach timestamp to
\* that event's timestamp.
C10_LatchAfterReset ==
    [][ ( /\ rm_call.op = "reset_kill_switch" /\ rm_call.from = "KillSwitch"
          /\ state_ = "Breached"
          /\ rm_call'.op = "evaluate"
          /\ WorstLevel(last_results_') = "Breached" ) =>
          (breach_timestamp_set_' /\ breach_timestamp_' = rm_call'.ts) ]_vars

\* C11: cooldown is a minimum dwell: when evaluate takes Breached to Normal at
\* event time t, no evaluate within the cooldown before t returned Normal or
\* Warning
C11_CooldownDwell ==
    [][ ( /\ state_ = "Breached"
          /\ rm_call'.op = "evaluate"
          /\ state_' = "Normal" ) =>
          \/ rm_call.last_quoting_eval = NoEval
          \/ rm_call'.ts - rm_call.last_quoting_eval >= cooldown_ms ]_vars

\* C15: the state evaluate returns is at least as severe as the worst of the
\* rule results (Normal < Warning < Breached < KillSwitch); when evaluate
\* leaves Breached for Normal after the cooldown, the worst result is Normal
C15_AtLeastWorst ==
    rm_call.op = "evaluate" =>
        /\ rm_call.ret = state_
        /\ Severity(state_) >= Severity(WorstLevel(last_results_))
        /\ (rm_call.from = "Breached" /\ state_ # "Breached" =>
               /\ state_ = "Normal"
               /\ WorstLevel(last_results_) = "Normal"
               /\ rm_call.ts - breach_timestamp_ >= cooldown_ms)

\* evaluate held the manager in Breached, above the Warning of the tick, after
\* the cooldown
C15_Witness ==
    /\ rm_call.op = "evaluate"
    /\ rm_call.from = "Breached"
    /\ rm_call.ret = "Breached"
    /\ WorstLevel(last_results_) = "Warning"
    /\ Len(last_results_) = 7
    /\ rm_call.ts - breach_timestamp_ >= cooldown_ms
    /\ rm_call.ts = last_md_timestamp_

\* the net P&L rule of the evaluate call just made keeps the books: the
\* drawdown is the high-water mark minus the net P&L and is not negative
DrawdownKept ==
    /\ drawdown_' = FSub(high_water_mark_', rm_call'.net_pnl)
    /\ FGe(drawdown_', FZero)

\* C16 as stated, over all evaluate calls: the first evaluate call sets the
\* high-water mark to the net P&L, every later one leaves it at the larger of
\* its old value and the net P&L (so it never decreases from one evaluate call
\* to the next), and an evaluation that runs the rules leaves the drawdown at
\* high-water mark minus net P&L, not negative
C16_Original ==
    [][ rm_call'.op = "evaluate" =>
          /\ high_water_mark_' =
                 IF ~rm_call.evaluated THEN rm_call'.net_pnl
                 ELSE IF FGt(rm_call'.net_pnl, high_water_mark_) THEN rm_call'.net_pnl
                 ELSE high_water_mark_
          /\ (state_ # "KillSwitch" => DrawdownKept) ]_vars

\* C16 over the evaluations that run the rules (those outside KillSwitch): the
\* first of them sets the high-water mark to the net P&L, every later one
\* leaves it at the larger of its old value and the net P&L, and the drawdown
\* is then high-water mark minus net P&L, not negative; an evaluate call in
\* KillSwitch leaves the high-water mark and the drawdown as they were
C16_HighWaterMark ==
    [][ rm_call'.op = "evaluate" =>
          IF state_ = "KillSwitch"
          THEN UNCHANGED <<high_water_mark_, drawdown_>>
          ELSE /\ high_water_mark_' =
                      IF ~rm_call.rules_ran THEN rm_call'.net_pnl
                      ELSE IF FGt(rm_call'.net_pnl, high_water_mark_)
                           THEN rm_call'.net_pnl
                      ELSE high_water_mark_
               /\ DrawdownKept ]_vars

\* a high-water mark set below zero by the first evaluation and raised since,
\* with the latest net P&L under it
C16_Witness ==
    /\ rm_call.op = "evaluate"
    /\ rm_call.rules_ran
    /\ FGt(high_water_mark_, rm_call.net_pnl)
    /\ FLt(high_water_mark_, FZero)
    /\ drawdown_ = FSub(high_water_mark_, rm_call.net_pnl)

\* the first evaluate call ever was made in KillSwitch with a net P&L other
\* than the initial high-water mark
C16_WitnessKillSwitchFirst ==
    /\ rm_call.op = "evaluate"
    /\ rm_call.from = "KillSwitch"
    /\ ~rm_call.rules_ran
    /\ rm_call.net_pnl # high_water_mark_

\* C17: quoting is allowed exactly in Normal and Warning, and not in Breached
\* or KillSwitch
C17_QuotingAllowed ==
    /\ state_ \in {"Normal", "Warning", "Breached", "KillSwitch"}
    /\ (state_ \in {"Normal", "Warning"} => is_quoting_allowed)
    /\ (state_ \in {"Breached", "KillSwitch"} => ~is_quoting_allowed)

\* the manager sits in Breached after a kill-switch reset
C17_Witness ==
    /\ state_ = "Breached"
    /\ rm_call.op = "reset_kill_switch"
    /\ ~is_quoting_allowed

----------------------------------------------------------------------------
(* Accounting driven through on_fill, mark_to_market and reset_daily, from  *)
(* an account opened with the default fee schedule or with one that         *)
(* charges and rebates.                                                     *)

InitialCapitalIn == FromInt(100)

FeeSchedulesIn ==
    { FeeSchedule(FZero, FZero, FZero),
      FeeSchedule(Frac(1, 100), Frac(3, 100), FromInt(1)) }

InitAcct ==
    /\ RM_Init
    /\ ME_Init
    /\ \E fees \in FeeSchedulesIn : AC_Construct(InitialCapitalIn, fees)
    /\ MM_Init
    /\ IO_Init
    /\ clock = 0
    /\ calls = 0

AcctCall == calls < MaxAcctCalls /\ calls' = calls + 1

OnFill ==
    \E side \in Sides, price \in 1..MaxFillPrice, qty \in 1..MaxFillQty,
       is_maker \in BOOLEAN :
        /\ AcctCall
        /\ AC_on_fill(side, FromInt(price), qty, is_maker)
        /\ UNCHANGED <<rm_vars, rm_call, clock, me_vars, me_call, mm_vars, io_vars>>

MarkToMarket ==
    \E mark_price \in 0..MaxFillPrice :
        /\ AcctCall
        /\ AC_mark_to_market(FromInt(mark_price))
        /\ UNCHANGED <<rm_vars, rm_call, clock, me_vars, me_call, mm_vars, io_vars>>

ResetDaily ==
    /\ AcctCall
    /\ AC_reset_daily
    /\ UNCHANGED <<rm_vars, rm_call, clock, me_vars, me_call, mm_vars, io_vars>>

NextAcct == OnFill \/ MarkToMarket \/ ResetDaily

SpecAcct == InitAcct /\ [][NextAcct]_vars

----------------------------------------------------------------------------
(* Matching engine: what a match_incoming_order call may do to the book.    *)

\* the side a call's aggressor trades against, as the call found it and as
\* it left it
PassiveBefore == IF me_call.side = "BUY" THEN me_call.asks ELSE me_call.bids
PassiveAfter == IF me_call.side = "BUY" THEN ask_book ELSE bid_book
OtherBefore == IF me_call.side = "BUY" THEN me_call.bids ELSE me_call.asks
OtherAfter == IF me_call.side = "BUY" THEN bid_book ELSE ask_book

\* a resting price the aggressor's limit accepts
Crosses(side, maker_price, limit) ==
    IF side = "BUY" THEN ~FGt(maker_price, limit) ELSE ~FLt(maker_price, limit)

\* resting order a is ahead of resting order b in price-time priority: a
\* better price (higher for bids, lower for asks), or the same price created
\* earlier
Ahead(a, b) ==
    \/ a.side = "BUY" /\ FGt(a.price, b.price)
    \/ a.side = "SELL" /\ FLt(a.price, b.price)
    \/ a.price = b.price /\ a.created_at < b.created_at

RECURSIVE SumFillQty(_, _)
SumFillQty(fills, i) ==
    IF i > Len(fills) THEN 0 ELSE fills[i].fill_qty + SumFillQty(fills, i + 1)

RECURSIVE CrossingLeaves(_, _, _, _)
CrossingLeaves(book, side, limit, i) ==
    IF i > Len(book) THEN 0
    ELSE (IF Crosses(side, book[i].price, limit) THEN book[i].leaves_qty ELSE 0)
         + CrossingLeaves(book, side, limit, i + 1)

\* the resting orders of a book without the fields a fill rewrites
Identity(o) == <<o.order_id, o.side, o.price, o.original_qty, o.created_at>>

FilledIds == {me_call.fills[k].order_id : k \in DOMAIN me_call.fills}

\* C3: the fills of a match_incoming_order call follow the opposite book in
\* price-time priority: the k-th fill is of the k-th resting order, an order is
\* filled only when every resting order ahead of it (better price, or same
\* price and earlier created_at) was filled down to zero earlier in this call,
\* and two fills at one price come in created_at order
C3_PriceTimePriority ==
    me_call.op = "match_incoming_order" =>
        LET fills == me_call.fills
            MakerOf(k) == CHOOSE o \in {PassiveBefore[j] : j \in DOMAIN PassiveBefore} :
                              o.order_id = fills[k].order_id
        IN  /\ Len(fills) <= Len(PassiveBefore)
            /\ \A k \in DOMAIN fills :
                  /\ fills[k].order_id = PassiveBefore[k].order_id
                  /\ \A j \in DOMAIN PassiveBefore :
                        Ahead(PassiveBefore[j], MakerOf(k)) =>
                            \E m \in 1..(k - 1) :
                                /\ fills[m].order_id = PassiveBefore[j].order_id
                                /\ fills[m].leaves_qty = 0
            /\ \A k, m \in DOMAIN fills :
                  (k < m) =>
                      /\ ~Ahead(MakerOf(m), MakerOf(k))
                      /\ (MakerOf(k).price = MakerOf(m).price =>
                              MakerOf(k).created_at <= MakerOf(m).created_at)

\* a call that fills two resting orders at the best price, the one created
\* earlier added last, with a third order resting behind them at a worse price
C3_Witness ==
    /\ me_call.op = "match_incoming_order"
    /\ Len(me_call.fills) = 2
    /\ me_call.fills[1].leaves_qty = 0
    /\ Len(PassiveBefore) = 3
    /\ PassiveBefore[1].price = PassiveBefore[2].price
    /\ PassiveBefore[2].price # PassiveBefore[3].price
    /\ PassiveBefore[1].created_at < PassiveBefore[2].created_at
    /\ PassiveBefore[1].order_id > PassiveBefore[2].order_id

\* C4: both books are always sorted: bids by price descending, asks by price
\* ascending, and by created_at ascending within one price
C4_BooksSorted ==
    /\ \A i \in 1..(Len(bid_book) - 1) :
          \/ FGt(bid_book[i].price, bid_book[i + 1].price)
          \/ /\ bid_book[i].price = bid_book[i + 1].price
             /\ bid_book[i].created_at <= bid_book[i + 1].created_at
    /\ \A i \in 1..(Len(ask_book) - 1) :
          \/ FLt(ask_book[i].price, ask_book[i + 1].price)
          \/ /\ ask_book[i].price = ask_book[i + 1].price
             /\ ask_book[i].created_at <= ask_book[i + 1].created_at

\* three asks on two price levels, the earliest-created order of the shared
\* level added after the later one, and the middle of the book then cancelled
\* or filled away
C4_Witness ==
    /\ Len(ask_book) = 2
    /\ Len(me_call.asks) = 3
    /\ me_call.asks[1].price = me_call.asks[2].price
    /\ me_call.asks[1].created_at < me_call.asks[2].created_at
    /\ me_call.asks[1].order_id > me_call.asks[2].order_id
    /\ FLt(me_call.asks[2].price, me_call.asks[3].price)

\* what C5 says of every call apart from the total filled
C5_MakersAndRest ==
    LET fills == me_call.fills
    IN  \* each filled maker loses exactly its fill quantity
        /\ \A k \in DOMAIN fills :
              \E j \in DOMAIN PassiveBefore :
                  /\ PassiveBefore[j].order_id = fills[k].order_id
                  /\ fills[k].leaves_qty = PassiveBefore[j].leaves_qty - fills[k].fill_qty
                  /\ fills[k].fill_qty > 0
                  /\ IF fills[k].leaves_qty = 0
                     THEN \A i \in DOMAIN PassiveAfter :
                              PassiveAfter[i].order_id # fills[k].order_id
                     ELSE \E i \in DOMAIN PassiveAfter :
                              /\ Identity(PassiveAfter[i]) = Identity(PassiveBefore[j])
                              /\ PassiveAfter[i].leaves_qty = fills[k].leaves_qty
        /\ \A k, m \in DOMAIN fills : fills[k].order_id = fills[m].order_id => k = m
        \* every other resting order is unchanged, in place
        /\ SelectSeq(PassiveAfter, LAMBDA o : o.order_id \notin FilledIds)
              = SelectSeq(PassiveBefore, LAMBDA o : o.order_id \notin FilledIds)
        /\ \A i \in DOMAIN PassiveAfter :
              \E j \in DOMAIN PassiveBefore :
                  Identity(PassiveAfter[i]) = Identity(PassiveBefore[j])
        /\ OtherAfter = OtherBefore
        \* nothing to trade: no fills, the book as it was
        /\ ( \/ me_call.qty <= 0
             \/ PassiveBefore = <<>>
             \/ \A j \in DOMAIN PassiveBefore :
                    ~Crosses(me_call.side, PassiveBefore[j].price, me_call.price) )
           => (fills = <<>> /\ PassiveAfter = PassiveBefore)

\* C5 as stated: the fills of a match_incoming_order call add up to
\* min(qty, total leaves_qty of the crossing resting orders), never more than
\* qty; each filled maker's leaves_qty drops by its fill quantity; every other
\* resting order is unchanged; qty <= 0, an empty opposite side or a
\* non-crossing limit gives no fills and an unchanged book
C5_Original ==
    me_call.op = "match_incoming_order" =>
        /\ SumFillQty(me_call.fills, 1)
              = Min(me_call.qty,
                    CrossingLeaves(PassiveBefore, me_call.side, me_call.price, 1))
        /\ SumFillQty(me_call.fills, 1) <= me_call.qty
        /\ C5_MakersAndRest

\* C5 with the total taken over the quantity actually requested: the fills
\* add up to min(max(qty, 0), total leaves_qty of the crossing resting
\* orders), which is at most qty whenever qty >= 0; the rest as stated
C5_QuantityConservation ==
    me_call.op = "match_incoming_order" =>
        /\ SumFillQty(me_call.fills, 1)
              = Min(IF me_call.qty > 0 THEN me_call.qty ELSE 0,
                    CrossingLeaves(PassiveBefore, me_call.side, me_call.price, 1))
        /\ (me_call.qty >= 0 => SumFillQty(me_call.fills, 1) <= me_call.qty)
        /\ C5_MakersAndRest

\* a call that fills one maker completely and the next one partly, with a
\* third resting order beyond the limit left alone
C5_Witness ==
    /\ me_call.op = "match_incoming_order"
    /\ Len(me_call.fills) = 2
    /\ me_call.fills[1].leaves_qty = 0
    /\ me_call.fills[2].leaves_qty > 0
    /\ Len(PassiveBefore) = 3
    /\ ~Crosses(me_call.side, PassiveBefore[3].price, me_call.price)
    /\ Len(PassiveAfter) = 2

\* a call with a negative quantity against a book with crossing orders
C5_WitnessNegativeQty ==
    /\ me_call.op = "match_incoming_order"
    /\ me_call.qty < 0
    /\ CrossingLeaves(PassiveBefore, me_call.side, me_call.price, 1) > 0

----------------------------------------------------------------------------
(* Accounting: cost basis, position and realized P&L.                       *)

\* C6: the cost basis is never negative, it is zero exactly when the position
\* is zero, and a flat account has no unrealized P&L
C6_CostBasisAndPosition ==
    /\ FGe(cost_basis_, FZero)
    /\ (cost_basis_ = FZero <=> position_ = 0)
    /\ (position_ = 0 => unrealized_pnl_ = FZero)

\* a fill that closes a part of a position built at two prices, and a fill
\* that closes a position completely
C6_Witness ==
    /\ ac_call.op = "on_fill"
    /\ Abs(ac_call.position) = 2
    /\ Abs(position_) = 1
    /\ avg_entry_price_of(ac_call.position, ac_call.cost_basis).d = 2

C6_WitnessFlat ==
    /\ ac_call.op \in {"mark_to_market", "reset_daily"}
    /\ position_ = 0
    /\ realized_pnl_ # FZero

\* C7: a fill against an opposite-sign position with average entry a closes
\* min(qty, |position|) of it and realizes (price - a) per share closed on a
\* long, (a - price) on a short; a larger fill flips the position to the
\* residual at cost basis price * residual, a smaller or equal one takes
\* a * close_qty off the cost basis so that what remains keeps average entry a;
\* any other fill adds price * qty to the cost basis and realizes nothing
C7_CloseAndFlip ==
    ac_call.op = "on_fill" =>
        LET position == ac_call.position
            price == ac_call.price
            qty == ac_call.qty
            a == avg_entry_price_of(position, ac_call.cost_basis)
            opposite == \/ ac_call.side = "BUY" /\ position < 0
                        \/ ac_call.side = "SELL" /\ position > 0
            close_qty == Min(qty, Abs(position))
            signed(q) == IF ac_call.side = "BUY" THEN q ELSE -q
        IN  IF opposite
            THEN /\ realized_pnl_ =
                        FAdd(ac_call.realized_pnl,
                             IF position > 0 THEN FMulInt(FSub(price, a), close_qty)
                             ELSE FMulInt(FSub(a, price), close_qty))
                 /\ IF qty > Abs(position)
                    THEN /\ position_ = signed(qty - Abs(position))
                         /\ cost_basis_ = FMulInt(price, qty - Abs(position))
                    ELSE /\ position_ = position + signed(qty)
                         /\ cost_basis_ = FSub(ac_call.cost_basis, FMulInt(a, close_qty))
                         /\ (position_ # 0 => avg_entry_price = a)
            ELSE /\ cost_basis_ = FAdd(ac_call.cost_basis, FMulInt(price, qty))
                 /\ realized_pnl_ = ac_call.realized_pnl
                 /\ position_ = position + signed(qty)

\* a long is sold through above its entry price: the fill closes it at a
\* profit and flips the account short
C7_Witness ==
    /\ ac_call.op = "on_fill"
    /\ ac_call.side = "SELL"
    /\ ac_call.position = 1
    /\ ac_call.qty = 2
    /\ FGt(ac_call.price, ac_call.cost_basis)
    /\ position_ = -1
    /\ FGt(realized_pnl_, ac_call.realized_pnl)

\* a short built at two prices is bought back in part
C7_WitnessPartialClose ==
    /\ ac_call.op = "on_fill"
    /\ ac_call.side = "BUY"
    /\ ac_call.position = -2
    /\ ac_call.cost_basis = FromInt(3)
    /\ ac_call.qty = 1
    /\ position_ = -1

----------------------------------------------------------------------------
(* Matching engine: fill contents, add_order and cancel_order.              *)

\* the ids of the orders resting in a book
BookIds(book) == {book[i].order_id : i \in DOMAIN book}

\* a book without the order of this id
Without(book, order_id) == SelectSeq(book, LAMBDA o : o.order_id # order_id)

\* C18: every FillEvent of a match_incoming_order call carries the order id,
\* the side and the resting price of a maker on the opposite side of the
\* aggressor, whatever the aggressor's limit
C18_FillCarriesMaker ==
    me_call.op = "match_incoming_order" =>
        \A k \in DOMAIN me_call.fills :
            \E j \in DOMAIN PassiveBefore :
                /\ me_call.fills[k].order_id = PassiveBefore[j].order_id
                /\ me_call.fills[k].side = PassiveBefore[j].side
                /\ me_call.fills[k].side # me_call.side
                /\ me_call.fills[k].price = PassiveBefore[j].price
                /\ me_call.fills[k].trade_id = me_call.order_id

\* fills at two resting prices, both away from the aggressor's limit
C18_Witness ==
    /\ me_call.op = "match_incoming_order"
    /\ Len(me_call.fills) = 2
    /\ me_call.fills[1].price # me_call.fills[2].price
    /\ me_call.fills[1].price # me_call.price
    /\ me_call.fills[2].price # me_call.price

\* C19: add_order rejects an order whose quantity or price is not positive and
\* leaves both books as they were; any other order is acknowledged and rests
\* on its own side afterwards, the other side unchanged
C19_AddOrder ==
    me_call.op = "add_order" =>
        IF me_call.qty <= 0 \/ ~FGt(me_call.price, FZero)
        THEN /\ me_call.status = "REJECTED"
             /\ bid_book = me_call.bids
             /\ ask_book = me_call.asks
        ELSE LET own == IF me_call.side = "BUY" THEN bid_book ELSE ask_book
                 own_before == IF me_call.side = "BUY" THEN me_call.bids ELSE me_call.asks
             IN  /\ me_call.status = "ACKNOWLEDGED"
                 /\ \E i \in DOMAIN own :
                        /\ own[i].order_id = me_call.order_id
                        /\ own[i].side = me_call.side
                        /\ own[i].price = me_call.price
                        /\ own[i].leaves_qty = me_call.qty
                        /\ own[i].original_qty = me_call.qty
                 /\ Without(own, me_call.order_id) = own_before
                 /\ Len(own) = Len(own_before) + 1
                 /\ IF me_call.side = "BUY" THEN ask_book = me_call.asks
                                             ELSE bid_book = me_call.bids

\* an order with a good quantity and a price below zero is turned away from a
\* book that holds orders
C19_Witness ==
    /\ me_call.op = "add_order"
    /\ me_call.status = "REJECTED"
    /\ me_call.qty > 0
    /\ FLt(me_call.price, FZero)
    /\ bid_book # <<>>
    /\ ask_book # <<>>

\* an order is acknowledged into the middle of its side
C19_WitnessAcknowledged ==
    /\ me_call.op = "add_order"
    /\ me_call.status = "ACKNOWLEDGED"
    /\ Len(ask_book) = 3
    /\ ask_book[2].order_id = me_call.order_id

\* C20: cancel_order(id) returns true exactly when an order of that id rests
\* in one of the books; it then removes that order and nothing else, the rest
\* staying in order, and otherwise changes nothing; cancelling again right
\* after a successful cancel, or cancelling an order the preceding match
\* filled completely, returns false and changes nothing
C20_CancelOrder ==
    [][ me_call'.op = "cancel_order" =>
          LET id == me_call'.order_id
              resting == id \in BookIds(bid_book) \cup BookIds(ask_book)
          IN  /\ me_call'.found = resting
              /\ bid_book' = Without(bid_book, id)
              /\ ask_book' = Without(ask_book, id)
              /\ Len(bid_book') + Len(ask_book')
                    = Len(bid_book) + Len(ask_book) - (IF resting THEN 1 ELSE 0)
              /\ ( /\ me_call.op = "cancel_order"
                   /\ me_call.found
                   /\ me_call.order_id = id ) =>
                     (~me_call'.found /\ UNCHANGED <<bid_book, ask_book>>)
              /\ ( /\ me_call.op = "match_incoming_order"
                   /\ \E k \in DOMAIN me_call.fills :
                          /\ me_call.fills[k].order_id = id
                          /\ me_call.fills[k].leaves_qty = 0 ) =>
                     (~me_call'.found /\ UNCHANGED <<bid_book, ask_book>>) ]_vars

\* the middle one of three resting asks is cancelled
C20_Witness ==
    /\ me_call.op = "cancel_order"
    /\ me_call.found
    /\ Len(me_call.asks) = 3
    /\ me_call.asks[2].order_id = me_call.order_id
    /\ Len(ask_book) = 2

\* a cancel that finds nothing while a partially filled bid rests
C20_WitnessAfterFill ==
    /\ me_call.op = "cancel_order"
    /\ ~me_call.found
    /\ me_call.order_id \notin BookIds(bid_book) \cup BookIds(ask_book)
    /\ \E i \in DOMAIN bid_book : bid_book[i].status = "PARTIALLY_FILLED"

----------------------------------------------------------------------------
(* MarketMaker::on_market_data, driven by the simulator's events.           *)
(* The handler runs to completion: from the moment an event is generated    *)
(* until on_market_data returns, mm_pc names the statement it has reached   *)
(* and nothing but its next statement can happen.                           *)

\* the best level of each side when the side has one
BestBidLevel == [price |-> FromInt(1), size |-> 1]
BestAskLevel == [price |-> Frac(3, 2), size |-> 1]

\* simulate_trade_activity: no trade, or one trade of either side
TradeIn ==
    {[aggressor_side |-> "none", size |-> 0]} \cup
    [aggressor_side : Sides, size : 1..max_quote_size]

\* trade ids are tagged apart from order ids
TradeId(sequence_number) == [tag |-> "trade", sequence_number |-> sequence_number]

\* MarketSimulator::generate_event: at most one trade is routed through the
\* matching engine, when the side it hits has levels; its fills travel in the
\* event, with the level vectors as they are
GenerateEvent ==
    \E d \in 1..cooldown_ms, trade \in TradeIn,
       bid_levels \in {<<>>, <<BestBidLevel>>},
       ask_levels \in {<<>>, <<BestAskLevel>>} :
        LET levels == IF trade.aggressor_side = "BUY" THEN ask_levels ELSE bid_levels
            routed == trade.aggressor_side # "none" /\ levels # <<>>
        IN  /\ mm_pc = "idle"
            /\ calls < MaxTicks
            /\ calls' = calls + 1
            /\ clock' = clock + d
            /\ IF routed
               THEN ME_match_incoming_order(trade.aggressor_side, levels[1].price,
                                            trade.size, TradeId(calls + 1), clock + d)
               ELSE UNCHANGED <<me_vars, me_call>>
            /\ md_event' = MarketDataEvent(calls + 1, clock + d, bid_levels, ask_levels,
                                           IF routed THEN me_call'.fills ELSE <<>>)
            /\ mm_pc' = "on_market_data"
            /\ UNCHANGED <<rm_vars, rm_call, ac_vars, ac_call, active_orders,
                           last_processed_sequence, order_counter, total_fills,
                           fill_index, mm_call, io_vars>>

\* if (md.bid_levels.empty() || md.ask_levels.empty()) return;
skips_empty_book == md_event.bid_levels = <<>> \/ md_event.ask_levels = <<>>

\* entry of on_market_data: the sequence number is taken, and an event with
\* an empty side ends the call there
MM_on_market_data ==
    /\ mm_pc = "on_market_data"
    /\ last_processed_sequence' = md_event.sequence_number
    /\ fill_index' = 1
    /\ IF skips_empty_book
       THEN /\ mm_pc' = "idle"
            /\ mm_call' = MM_call("empty_book", md_event)
       ELSE /\ mm_pc' = "fills"
            /\ mm_call' = MM_call("running", md_event)
    /\ UNCHANGED <<rm_vars, rm_call, clock, calls, me_vars, me_call, ac_vars, ac_call,
                   active_orders, order_counter, total_fills, md_event, io_vars>>

\* variant: the fill loop is left at once
fills_done_at_once == TRUE

\* for (const auto& fill : md.mm_fills): the loop has run off the end
fills_done == fill_index > Len(md_event.mm_fills)

\* on_fill, the accounting: the fill is handed to Accounting as a maker fill
on_fill_accounting(fill) == AC_on_fill(fill.side, fill.price, fill.fill_qty, TRUE)

\* on_fill, the map: a filled order leaves it, a partly filled one stays with
\* the leaves the fill reports
on_fill_active_orders(fill) ==
    IF fill.leaves_qty = 0
    THEN [id \in DOMAIN active_orders \ {fill.order_id} |-> active_orders[id]]
    ELSE [active_orders EXCEPT ![fill.order_id].leaves_qty = fill.leaves_qty,
                               ![fill.order_id].status = "PARTIALLY_FILLED"]

\* one turn of the fill loop
MM_process_fill ==
    /\ mm_pc = "fills"
    /\ ~fills_done
    /\ LET fill == md_event.mm_fills[fill_index]
       IN  IF fill.order_id \in DOMAIN active_orders
           THEN /\ total_fills' = total_fills + 1
                /\ on_fill_accounting(fill)
                /\ active_orders' = on_fill_active_orders(fill)
                /\ mm_call' = [mm_call EXCEPT !.applied = Append(@, fill)]
           ELSE UNCHANGED <<total_fills, ac_vars, ac_call, active_orders, mm_call>>
    /\ fill_index' = fill_index + 1
    /\ UNCHANGED <<rm_vars, rm_call, clock, calls, me_vars, me_call,
                   last_processed_sequence, order_counter, md_event, mm_pc, io_vars>>

\* (best_bid + best_ask) / 2.0
mid_price(event) ==
    FDivInt(FAdd(event.bid_levels[1].price, event.ask_levels[1].price), 2)

\* after the fills the account is marked to mid
MM_mark_to_market ==
    /\ mm_pc = "fills"
    /\ fills_done
    /\ AC_mark_to_market(mid_price(md_event))
    /\ mm_pc' = "risk"
    /\ UNCHANGED <<rm_vars, rm_call, clock, calls, me_vars, me_call, active_orders,
                   last_processed_sequence, order_counter, total_fills, md_event,
                   fill_index, mm_call, io_vars>>

\* the risk manager evaluates the account as it stands at mid; its answer
\* selects the branch
MM_evaluate_risk ==
    /\ mm_pc = "risk"
    /\ RM_evaluate([position |-> position_, net_pnl |-> net_pnl], md_event,
                   mid_price(md_event))
    /\ mm_pc' = IF is_quoting_allowed' THEN "cancel_stale" ELSE "cancel_not_allowed"
    /\ mm_call' = [mm_call EXCEPT !.evaluated = TRUE,
                                  !.eval_applied = Len(mm_call.applied),
                                  !.after_fills = active_orders]
    /\ UNCHANGED <<clock, calls, me_vars, me_call, ac_vars, ac_call, active_orders,
                   last_processed_sequence, order_counter, total_fills, md_event,
                   fill_index, io_vars>>

\* variant: the loop visits the bids only
orders_to_cancel_bids_only ==
    {id \in DOMAIN active_orders : active_orders[id].side = "BUY"}

\* for (auto it = active_orders.begin(); it != active_orders.end(); )
orders_to_cancel == DOMAIN active_orders

\* the cancel is recorded on the risk manager at the event's time
record_cancel_on_risk == RM_record_cancel(md_event.timestamp)

\* one turn of cancel_all_orders: the order at the iterator is cancelled at
\* the simulator and erased (the map's iteration order is not specified)
MM_cancel_order ==
    /\ mm_pc \in {"cancel_not_allowed", "cancel_stale"}
    /\ \E id \in orders_to_cancel :
        /\ ME_cancel_order(id)
        /\ record_cancel_on_risk
        /\ active_orders' = [i \in DOMAIN active_orders \ {id} |-> active_orders[i]]
        /\ mm_call' = [mm_call EXCEPT !.cancelled = @ \cup {id},
                                      !.recorded = @ + 1]
    /\ UNCHANGED <<clock, calls, ac_vars, ac_call, last_processed_sequence,
                   order_counter, total_fills, md_event, mm_pc, fill_index, io_vars>>

\* quoting is not allowed: with the orders cancelled the call returns
MM_return_not_allowed ==
    /\ mm_pc = "cancel_not_allowed"
    /\ orders_to_cancel = {}
    /\ mm_pc' = "idle"
    /\ mm_call' = [mm_call EXCEPT !.path = "not_allowed"]
    /\ UNCHANGED <<rm_vars, rm_call, clock, calls, me_vars, me_call, ac_vars, ac_call,
                   active_orders, last_processed_sequence, order_counter, total_fills,
                   md_event, fill_index, io_vars>>

\* the strategy answers should_quote = false: the call returns
MM_no_quote ==
    /\ mm_pc = "cancel_stale"
    /\ orders_to_cancel = {}
    /\ mm_pc' = "idle"
    /\ mm_call' = [mm_call EXCEPT !.path = "no_quote"]
    /\ UNCHANGED <<rm_vars, rm_call, clock, calls, me_vars, me_call, ac_vars, ac_call,
                   active_orders, last_processed_sequence, order_counter, total_fills,
                   md_event, fill_index, io_vars>>

\* sizes a strategy may ask for, below and above the allowed range
StrategySizeIn == {min_quote_size - 1, max_quote_size + 1}

\* std::max(min_quote_size, std::min(size, max_quote_size))
clamp_size(size) ==
    IF Min(size, max_quote_size) > min_quote_size THEN Min(size, max_quote_size)
    ELSE min_quote_size

\* the quote is recorded on the risk manager at the event's time
record_quote_on_risk == RM_record_quote(md_event.timestamp)

\* an order is submitted; when the simulator acknowledges it, it is stored
\* as acknowledged and recorded as a quote
submit(side, price, size) ==
    LET order == Order(order_counter + 1, side, price, clamp_size(size),
                       md_event.timestamp)
    IN  /\ order_counter' = order_counter + 1
        /\ ME_add_order(order)
        /\ IF me_call'.status = "ACKNOWLEDGED"
           THEN /\ record_quote_on_risk
                /\ active_orders' =
                       [id \in DOMAIN active_orders \cup {order.order_id} |->
                           IF id = order.order_id
                           THEN [order EXCEPT !.status = "ACKNOWLEDGED"]
                           ELSE active_orders[id]]
           ELSE UNCHANGED <<rm_vars, rm_call, active_orders>>

\* the strategy quotes: the bid goes out at the best bid
MM_submit_bid ==
    \E size \in StrategySizeIn :
        /\ mm_pc = "cancel_stale"
        /\ orders_to_cancel = {}
        /\ submit("BUY", md_event.best_bid_price, size)
        /\ mm_pc' = "submit_ask"
        /\ UNCHANGED <<clock, calls, ac_vars, ac_call, last_processed_sequence,
                       total_fills, md_event, fill_index, mm_call, io_vars>>

\* then the ask at the best ask, and the call returns
MM_submit_ask ==
    \E size \in StrategySizeIn :
        /\ mm_pc = "submit_ask"
        /\ submit("SELL", md_event.best_ask_price, size)
        /\ mm_pc' = "idle"
        /\ mm_call' = [mm_call EXCEPT !.path = "quoted"]
        /\ UNCHANGED <<clock, calls, ac_vars, ac_call, last_processed_sequence,
                       total_fills, md_event, fill_index, io_vars>>

\* Accounting accounting_{100000.0}
InitMM ==
    /\ RM_Init
    /\ ME_Init
    /\ AC_Construct(FromInt(100000), FeeSchedule(FZero, FZero, FZero))
    /\ MM_Init
    /\ IO_Init
    /\ clock = 0
    /\ calls = 0

NextMM ==
    \/ GenerateEvent
    \/ MM_on_market_data
    \/ MM_process_fill
    \/ MM_mark_to_market
    \/ MM_evaluate_risk
    \/ MM_cancel_order
    \/ MM_return_not_allowed
    \/ MM_no_quote
    \/ MM_submit_bid
    \/ MM_submit_ask

SpecMM == InitMM /\ [][NextMM]_vars

----------------------------------------------------------------------------
(* Properties of on_market_data, checked under SpecMM whenever a call has   *)
(* returned.                                                                *)

\* an on_market_data call has returned
Returned == mm_pc = "idle" /\ mm_call.path # "init"

\* the entries of mm_fills that find their order in the map, in order
RECURSIVE FillsOfActive(_, _)
FillsOfActive(fills, ids) ==
    IF fills = <<>> THEN <<>>
    ELSE LET fill == Head(fills) IN
         IF fill.order_id \in ids
         THEN <<fill>> \o FillsOfActive(Tail(fills),
                              IF fill.leaves_qty = 0 THEN ids \ {fill.order_id} ELSE ids)
         ELSE FillsOfActive(Tail(fills), ids)

\* the map after those fills: a filled order erased, a partly filled one
\* PARTIALLY_FILLED with its leaves reduced by the fill
RECURSIVE ActiveAfterFills(_, _)
ActiveAfterFills(fills, active) ==
    IF fills = <<>> THEN active
    ELSE LET fill == Head(fills)
             id == fill.order_id
         IN  IF id \notin DOMAIN active THEN ActiveAfterFills(Tail(fills), active)
             ELSE IF fill.leaves_qty = 0
             THEN ActiveAfterFills(Tail(fills),
                                   [i \in DOMAIN active \ {id} |-> active[i]])
             ELSE ActiveAfterFills(Tail(fills),
                      [active EXCEPT ![id].leaves_qty = active[id].leaves_qty - fill.fill_qty,
                                     ![id].status = "PARTIALLY_FILLED"])

\* the position change of maker fills: bought on BUY, sold on SELL
RECURSIVE SignedQty(_)
SignedQty(fills) ==
    IF fills = <<>> THEN 0
    ELSE (IF Head(fills).side = "BUY" THEN Head(fills).fill_qty
          ELSE -Head(fills).fill_qty) + SignedQty(Tail(fills))

\* the fills the call had to apply
DueFills == FillsOfActive(mm_call.mm_fills, DOMAIN mm_call.active)

C13_FillsApplied ==
    Returned =>
        /\ mm_call.applied = DueFills
        /\ mm_call.after_fills = ActiveAfterFills(mm_call.mm_fills, mm_call.active)
        /\ position_ = mm_call.position_entry + SignedQty(DueFills)

----------------------------------------------------------------------------
(* Matching engine: the fields of resting orders, under SpecBook.           *)

\* the orders of both books, and of both books as the last call found them
Resting == {bid_book[i] : i \in DOMAIN bid_book} \cup {ask_book[i] : i \in DOMAIN ask_book}
RestingBefore ==
    {me_call.bids[i] : i \in DOMAIN me_call.bids} \cup
    {me_call.asks[i] : i \in DOMAIN me_call.asks}

\* C21: a resting order has 1 <= leaves_qty <= original_qty and is
\* ACKNOWLEDGED or PARTIALLY_FILLED, never FILLED; a call changes neither its
\* price, side, created_at nor original quantity; a fill reports leaves
\* between 0 and the maker's leaves before, and reports 0 exactly when the
\* maker is gone from the book after the same call
C21_OrderFields ==
    /\ \A o \in Resting :
        /\ 1 <= o.leaves_qty
        /\ o.leaves_qty <= o.original_qty
        /\ o.status \in {"ACKNOWLEDGED", "PARTIALLY_FILLED"}
        /\ \A b \in RestingBefore :
               b.order_id = o.order_id =>
                   /\ b.price = o.price
                   /\ b.side = o.side
                   /\ b.created_at = o.created_at
                   /\ b.original_qty = o.original_qty
                   /\ o.leaves_qty <= b.leaves_qty
    /\ me_call.op = "match_incoming_order" =>
        \A k \in DOMAIN me_call.fills :
            LET fill == me_call.fills[k] IN
            /\ 0 <= fill.leaves_qty
            /\ \E b \in RestingBefore :
                   /\ b.order_id = fill.order_id
                   /\ fill.leaves_qty = b.leaves_qty - fill.fill_qty
                   /\ fill.leaves_qty <= b.original_qty
            /\ (fill.leaves_qty = 0) = (fill.order_id \notin BookIds(PassiveAfter))
            /\ fill.leaves_qty > 0 =>
                   \E o \in Resting : /\ o.order_id = fill.order_id
                                      /\ o.leaves_qty = fill.leaves_qty
                                      /\ o.status = "PARTIALLY_FILLED"

\* one match fills a maker completely and the next one in part: the first is
\* gone, the second rests PARTIALLY_FILLED
C21_Witness ==
    /\ me_call.op = "match_incoming_order"
    /\ Len(me_call.fills) = 2
    /\ me_call.fills[1].leaves_qty = 0
    /\ me_call.fills[2].leaves_qty = 1
    /\ \E o \in Resting : /\ o.order_id = me_call.fills[2].order_id
                          /\ o.status = "PARTIALLY_FILLED"
                          /\ o.original_qty = o.leaves_qty + 1

----------------------------------------------------------------------------
(* Accounting: fees and rebates, under SpecAcct.                            *)

\* C22: on_fill adds notional * fee_bps / 10000, plus the taker fee per share
\* on a taker fill or minus the maker rebate per share on a maker fill, to
\* total_fees; it adds the maker rebate per share to total_rebates on maker
\* fills only; net_pnl is realized + unrealized - total_fees + total_rebates
C22_FeesAndRebates ==
    /\ net_pnl = FAdd(FSub(FAdd(realized_pnl_, unrealized_pnl_), total_fees_),
                      total_rebates_)
    /\ ac_call.op = "on_fill" =>
        LET notional == FMulInt(ac_call.price, ac_call.qty)
            bps_fee == FDivInt(FMul(notional, fees_.fee_bps), 10000)
            rebate == FMulInt(fees_.maker_rebate_per_share, ac_call.qty)
            taker_fee == FMulInt(fees_.taker_fee_per_share, ac_call.qty)
        IN  /\ total_fees_ = FAdd(ac_call.total_fees,
                                  IF ac_call.is_maker THEN FSub(bps_fee, rebate)
                                  ELSE FAdd(bps_fee, taker_fee))
            /\ total_rebates_ = IF ac_call.is_maker
                                THEN FAdd(ac_call.total_rebates, rebate)
                                ELSE ac_call.total_rebates

\* a taker fill after a maker fill under a schedule with fees and rebates
C22_Witness ==
    /\ ac_call.op = "on_fill"
    /\ ~ac_call.is_maker
    /\ fees_.maker_rebate_per_share # FZero
    /\ ac_call.total_rebates # FZero
    /\ total_rebates_ = ac_call.total_rebates
    /\ FGt(total_fees_, ac_call.total_fees)

----------------------------------------------------------------------------
(* MarketSimulator (MarketSimulator.cpp).  Text is a sequence of           *)
(* one-character strings; a double is an exact fraction whose decimal      *)
(* expansion ends within three places, which max_digits10 significant      *)
(* digits print in full.                                                   *)

Digits == <<"0", "1", "2", "3", "4", "5", "6", "7", "8", "9">>

\* operator<< on an integer
RECURSIVE int_to_string(_)
int_to_string(i) ==
    IF i < 0 THEN <<"-">> \o int_to_string(-i)
    ELSE IF i < 10 THEN <<Digits[i + 1]>>
    ELSE int_to_string(i \div 10) \o <<Digits[(i % 10) + 1]>>

\* operator<< on a double at setprecision(max_digits10): the general format
\* drops the zeros that end the decimals, and the point with them
double_to_string(x) ==
    LET mag == Abs(x.n)
        thousandths == ((mag % x.d) * 1000) \div x.d
        d1 == Digits[(thousandths \div 100) + 1]
        d2 == Digits[((thousandths \div 10) % 10) + 1]
        d3 == Digits[(thousandths % 10) + 1]
        decimals == IF thousandths = 0 THEN <<>>
                    ELSE IF thousandths % 100 = 0 THEN <<".", d1>>
                    ELSE IF thousandths % 10 = 0 THEN <<".", d1, d2>>
                    ELSE <<".", d1, d2, d3>>
    IN  (IF x.n < 0 THEN <<"-">> ELSE <<>>) \o int_to_string(mag \div x.d) \o decimals

\* std::stoll, std::stoi, std::stoull on the text the writer produced
RECURSIVE stoll(_)
stoll(s) ==
    IF s = <<>> THEN 0
    ELSE IF s[1] = "-" THEN -stoll(Tail(s))
    ELSE stoll(SubSeq(s, 1, Len(s) - 1)) * 10
         + (CHOOSE v \in 0..9 : Digits[v + 1] = s[Len(s)])

\* std::string::find(c, start): the first position of character c in s from
\* position start on, 0 for npos
find_char(s, c, start) ==
    LET hits == {i \in start..Len(s) : s[i] = c}
    IN  IF hits = {} THEN 0 ELSE CHOOSE i \in hits : \A j \in hits : i <= j

\* std::stod on the text the writer produced
stod(s) ==
    LET magnitude(whole, decimals) ==
            Frac(stoll(whole) * (10 ^ Len(decimals)) + stoll(decimals),
                 10 ^ Len(decimals))
        unsigned(body, dot) ==
            IF dot = 0 THEN magnitude(body, <<>>)
            ELSE magnitude(SubSeq(body, 1, dot - 1), SubSeq(body, dot + 1, Len(body)))
        number(body) == unsigned(body, find_char(body, ".", 1))
    IN  IF s # <<>> /\ s[1] = "-" THEN FSub(FZero, number(Tail(s))) ELSE number(s)

\* split(input, delimiter): the pieces between the delimiters, empty pieces
\* included, so a text with k delimiters has k + 1 pieces
RECURSIVE split(_, _)
split(input, delimiter) ==
    LET cut(pos) ==
            IF pos = 0 THEN <<input>>
            ELSE <<SubSeq(input, 1, pos - 1)>>
                 \o split(SubSeq(input, pos + 1, Len(input)), delimiter)
    IN  cut(find_char(input, delimiter, 1))

\* the pieces written with the separator between each two
RECURSIVE join(_, _)
join(pieces, separator) ==
    IF pieces = <<>> THEN <<>>
    ELSE IF Len(pieces) = 1 THEN pieces[1]
    ELSE pieces[1] \o <<separator>> \o join(Tail(pieces), separator)

side_to_str(s) == IF s = "BUY" THEN <<"B", "U", "Y">> ELSE <<"S", "E", "L", "L">>

str_to_side(s) == IF s = <<"B", "U", "Y">> THEN "BUY" ELSE "SELL"

\* a time_point counts ticks of the system clock; a millisecond is
\* TicksPerMilli of them
TicksPerMilli == 1000

\* duration_cast<milliseconds>(ts.time_since_epoch()).count()
to_millis(ts) == ts \div TicksPerMilli

\* time_point(milliseconds(ms))
from_millis(ms) == ms * TicksPerMilli

\* kBaseTimestampMs, kSimOrderTag and kTradeIdTag, scaled to the integers at
\* hand; a tag is or-ed onto a counter that stays below it
kBaseTimestampMs == 1000
kSimOrderTag == 2000
kTradeIdTag == 3000

\* the number of levels initialize_order_book builds on each side
book_depth == 2

\* the largest trade simulate_trade_activity draws
max_trade_size == 2

\* std::mt19937: one draw moves the generator to its next state, a function
\* of its state alone; the value drawn is the new state
RngModulus == 61

draw(s) == [s EXCEPT !.rng = (s.rng * 7 + 5) % RngModulus]

\* uniform_int_distribution<int>(lo, hi) on the value drawn
uniform_int(x, lo, hi) == lo + (x % (hi - lo + 1))

\* uniform_real_distribution<>(0.0, 1.0)(rng) < num / den on the value drawn
prob_below(x, num, den) == x * den < num * RngModulus

\* SimulationConfig
SimulationConfig(instrument, seed, event_log_path, replay_log_path, mode) ==
    [instrument |-> instrument, initial_price |-> FromInt(4), spread |-> FromInt(1),
     volatility |-> Frac(1, 2), seed |-> seed, event_log_path |-> event_log_path,
     replay_log_path |-> replay_log_path, mode |-> mode]

\* variant: the simulator stamps with the wall clock of the machine
current_time_wall(s) ==
    [s EXCEPT !.simulation_clock = from_millis(wall_clock)]

\* current_time(): simulation_clock += 1ms; return simulation_clock (the
\* value returned is the clock of the state returned)
current_time(s) ==
    [s EXCEPT !.simulation_clock = s.simulation_clock + from_millis(1)]

\* generate_order_id(): kSimOrderTag | ++sim_order_counter_ (the id returned
\* is read off the state returned)
generate_order_id(s) == [s EXCEPT !.sim_order_counter_ = s.sim_order_counter_ + 1]

\* initialize_order_book from level i on
RECURSIVE initialize_order_book(_, _)
initialize_order_book(s, i) ==
    IF i > book_depth THEN s
    ELSE LET level(at, price) ==
                 [price |-> price, size |-> uniform_int(at.rng, 1, 10),
                  order_id |-> kSimOrderTag + at.sim_order_counter_,
                  timestamp |-> at.simulation_clock]
             push(b, a, price_offset) ==
                 [a EXCEPT !.bid_levels_ =
                               Append(s.bid_levels_,
                                      level(b, FSub(s.mid_price, price_offset))),
                           !.ask_levels_ =
                               Append(s.ask_levels_,
                                      level(a, FAdd(s.mid_price, price_offset)))]
             ask(b) == push(b, current_time(generate_order_id(draw(b))),
                            FDivInt(FMulInt(s.spread, i), 2))
         IN  initialize_order_book(ask(current_time(generate_order_id(draw(s)))), i + 1)

\* serialize_event: eleven fields joined by '|', the instrument as it is,
\* the entries of a list joined by ';' and their tokens by ','; mm_fills are
\* not written
serialize_event(event) ==
    LET serialize_level(level) ==
            join(<<double_to_string(level.price), int_to_string(level.size),
                   int_to_string(level.order_id),
                   int_to_string(to_millis(level.timestamp))>>, ",")
        serialize_trade(trade) ==
            join(<<side_to_str(trade.aggressor_side), double_to_string(trade.price),
                   int_to_string(trade.size), int_to_string(trade.trade_id),
                   int_to_string(to_millis(trade.timestamp))>>, ",")
        serialize_partial_fill(fill) ==
            join(<<int_to_string(fill.order_id), double_to_string(fill.price),
                   int_to_string(fill.filled_size), int_to_string(fill.remaining_size),
                   int_to_string(to_millis(fill.timestamp))>>, ",")
        serialize_levels(levels) ==
            join([i \in DOMAIN levels |-> serialize_level(levels[i])], ";")
        serialize_trades(trades) ==
            join([i \in DOMAIN trades |-> serialize_trade(trades[i])], ";")
        serialize_partial_fills(fills) ==
            join([i \in DOMAIN fills |-> serialize_partial_fill(fills[i])], ";")
    IN  join(<<int_to_string(event.sequence_number),
               event.instrument,
               double_to_string(event.best_bid_price),
               double_to_string(event.best_ask_price),
               int_to_string(event.best_bid_size),
               int_to_string(event.best_ask_size),
               int_to_string(to_millis(event.timestamp)),
               serialize_levels(event.bid_levels),
               serialize_levels(event.ask_levels),
               serialize_trades(event.trades),
               serialize_partial_fills(event.partial_fills)>>, "|")

\* deserialize_event: it throws on a line that has not eleven fields or an
\* entry that has not the tokens of its kind; otherwise it gives the event,
\* whose mm_fills stay empty
deserialize_event(line) ==
    LET entries_of(raw) ==
            IF raw = <<>> THEN <<>>
            ELSE SelectSeq(split(raw, ";"), LAMBDA entry : entry # <<>>)
        tokens_of(raw) ==
            LET split_each(entries) ==
                    [i \in DOMAIN entries |-> split(entries[i], ",")]
            IN  split_each(entries_of(raw))
        malformed(entries, count) ==
            \E i \in DOMAIN entries : Len(entries[i]) # count
        parse_level(tokens) ==
            [price |-> stod(tokens[1]), size |-> stoll(tokens[2]),
             order_id |-> stoll(tokens[3]), timestamp |-> from_millis(stoll(tokens[4]))]
        parse_trade(tokens) ==
            [aggressor_side |-> str_to_side(tokens[1]), price |-> stod(tokens[2]),
             size |-> stoll(tokens[3]), trade_id |-> stoll(tokens[4]),
             timestamp |-> from_millis(stoll(tokens[5]))]
        parse_partial_fill(tokens) ==
            [order_id |-> stoll(tokens[1]), price |-> stod(tokens[2]),
             filled_size |-> stoll(tokens[3]), remaining_size |-> stoll(tokens[4]),
             timestamp |-> from_millis(stoll(tokens[5]))]
        parse_lists(fields, bid_levels, ask_levels, trades, partial_fills) ==
            IF \/ malformed(bid_levels, 4)
               \/ malformed(ask_levels, 4)
               \/ malformed(trades, 5)
               \/ malformed(partial_fills, 5)
            THEN [threw |-> TRUE]
            ELSE [threw |-> FALSE,
                  event |->
                    [instrument |-> fields[2],
                     best_bid_price |-> stod(fields[3]),
                     best_ask_price |-> stod(fields[4]),
                     best_bid_size |-> stoll(fields[5]),
                     best_ask_size |-> stoll(fields[6]),
                     bid_levels |-> [i \in DOMAIN bid_levels |->
                                        parse_level(bid_levels[i])],
                     ask_levels |-> [i \in DOMAIN ask_levels |->
                                        parse_level(ask_levels[i])],
                     trades |-> [i \in DOMAIN trades |-> parse_trade(trades[i])],
                     partial_fills |-> [i \in DOMAIN partial_fills |->
                                           parse_partial_fill(partial_fills[i])],
                     mm_fills |-> <<>>,
                     timestamp |-> from_millis(stoll(fields[7])),
                     sequence_number |-> stoll(fields[1])]]
        parse_fields(fields) ==
            IF Len(fields) # 11 THEN [threw |-> TRUE]
            ELSE parse_lists(fields, tokens_of(fields[8]), tokens_of(fields[9]),
                             tokens_of(fields[10]), tokens_of(fields[11]))
    IN  parse_fields(split(line, "|"))

\* load_event_log: every line std::getline gives, the empty ones skipped, is
\* deserialized, which may throw; then the sequence number and the clock
\* move to those of the last event
load_event_log(s, file) ==
    LET loaded(events) ==
            [threw |-> FALSE,
             s |-> [s EXCEPT !.replay_events = events,
                             !.sequence_number = events[Len(events)].sequence_number,
                             !.simulation_clock = events[Len(events)].timestamp]]
        load(parsed) ==
            IF \E i \in DOMAIN parsed : parsed[i].threw THEN [threw |-> TRUE]
            ELSE IF parsed = <<>> THEN [threw |-> FALSE, s |-> s]
            ELSE loaded([i \in DOMAIN parsed |-> parsed[i].event])
        parse(lines) == load([i \in DOMAIN lines |-> deserialize_event(lines[i])])
    IN  parse(SelectSeq(split(file, "\n"), LAMBDA line : line # <<>>))

\* MarketSimulator(cfg): the initializer list, then in replay mode the log
\* is loaded, and the constructor throws when it does not load or is empty;
\* in simulate mode the log stream is opened when a path is given and the
\* book is built
MarketSimulator(cfg, file) ==
    LET s == [mode |-> cfg.mode, instrument |-> cfg.instrument,
              mid_price |-> cfg.initial_price, spread |-> cfg.spread,
              volatility |-> cfg.volatility, rng |-> cfg.seed % RngModulus,
              sequence_number |-> 0,
              simulation_clock |-> from_millis(kBaseTimestampMs + cfg.seed * 1000),
              replay_index |-> 0, replay_events |-> <<>>, sim_order_counter_ |-> 0,
              bid_levels_ |-> <<>>, ask_levels_ |-> <<>>, bids |-> <<>>, asks |-> <<>>,
              logging |-> FALSE]
        replaying(loaded) ==
            IF loaded.threw THEN [threw |-> TRUE]
            ELSE IF loaded.s.replay_events = <<>> THEN [threw |-> TRUE]
            ELSE loaded
    IN  IF cfg.mode = "Replay"
        THEN IF cfg.replay_log_path = "" THEN [threw |-> TRUE]
             ELSE replaying(load_event_log(s, file))
        ELSE [threw |-> FALSE,
              s |-> initialize_order_book(
                        [s EXCEPT !.logging = cfg.event_log_path # ""], 1)]

\* std::sort of the levels by price, descending for bids and ascending for
\* asks: each level goes to the place after the levels ahead of it (the
\* re-anchored prices of two levels are never equal)
sort_levels(levels, descending) ==
    LET ahead(j, i) == IF descending THEN FGt(levels[j].price, levels[i].price)
                       ELSE FLt(levels[j].price, levels[i].price)
        place(i) == 1 + Cardinality({j \in DOMAIN levels : ahead(j, i)})
    IN  [p \in DOMAIN levels |-> levels[CHOOSE i \in DOMAIN levels : place(i) = p]]

\* the loop of update_order_book over one side from level i on: the price
\* is re-anchored around the mid price with a noise in (-0.001, 0.001), the
\* size changes by -2..2 and stays at least 1
RECURSIVE update_levels(_, _, _, _)
update_levels(s, levels, i, sign) ==
    IF i > Len(levels) THEN [s |-> s, levels |-> levels]
    ELSE LET set(s2, price, size) ==
                 update_levels(s2, [levels EXCEPT ![i].price = price,
                                                  ![i].size = IF size < 1 THEN 1
                                                              ELSE size],
                               i + 1, sign)
             size_of(s1, s2) ==
                 set(s2,
                     FAdd(FAdd(s.mid_price,
                               FMulInt(FDivInt(FMulInt(s.spread, i), 2), sign)),
                          Frac((s1.rng % 3) - 1, 8)),
                     levels[i].size + uniform_int(s2.rng, -2, 2))
             price_of(s1) == size_of(s1, draw(s1))
         IN  price_of(draw(s))

update_order_book(s) ==
    LET sorted(b, a) ==
            [a.s EXCEPT !.bid_levels_ = sort_levels(b.levels, TRUE),
                        !.ask_levels_ = sort_levels(a.levels, FALSE)]
        asks_after(b) == sorted(b, update_levels(b.s, s.ask_levels_, 1, 1))
    IN  asks_after(update_levels(s, s.bid_levels_, 1, -1))

\* simulate_trade_activity: with a chance of one in five a trade of either
\* side at the best level it hits, routed through the matching engine
simulate_trade_activity(s) ==
    LET routed(s4, is_buy, trade, r) ==
            [s |-> [s4 EXCEPT !.asks = IF is_buy THEN r.book ELSE s.asks,
                              !.bids = IF is_buy THEN s.bids ELSE r.book],
             trades |-> <<trade>>,
             mm_fills |-> r.fills]
        stamped(s4, is_buy, levels, trade_size) ==
            LET trade == [aggressor_side |-> IF is_buy THEN "BUY" ELSE "SELL",
                          price |-> levels[1].price, size |-> trade_size,
                          trade_id |-> kTradeIdTag + (s.sequence_number + 1),
                          timestamp |-> s4.simulation_clock]
            IN  routed(s4, is_buy, trade,
                       match_walk(IF is_buy THEN s.asks ELSE s.bids, 1, trade_size,
                                  NoFills, trade.aggressor_side, trade.price,
                                  trade.trade_id, trade.timestamp))
        sized(s3, is_buy, levels) ==
            stamped(current_time(s3), is_buy, levels,
                    uniform_int(s3.rng, 1, max_trade_size))
        sided(s2, is_buy) ==
            IF (IF is_buy THEN s.ask_levels_ ELSE s.bid_levels_) = <<>>
            THEN [s |-> s2, trades |-> <<>>, mm_fills |-> <<>>]
            ELSE sized(draw(s2), is_buy, IF is_buy THEN s.ask_levels_ ELSE s.bid_levels_)
        side_of(s2) == sided(s2, prob_below(s2.rng, 1, 2))
        chance(s1) ==
            IF ~prob_below(s1.rng, 1, 5) THEN [s |-> s1, trades |-> <<>>, mm_fills |-> <<>>]
            ELSE side_of(draw(s1))
    IN  chance(draw(s))

\* generate_event() throws: the replay log is exhausted
generate_event_throws(s) ==
    s.replay_events # <<>> /\ s.replay_index >= Len(s.replay_events)

\* variant: the replay index stays where it is
next_replay_index_stays(replay_index) == replay_index

\* replay_index++
next_replay_index(replay_index) == replay_index + 1

\* variant: the sequence number is stepped twice
next_sequence_number_twice(sequence_number) == sequence_number + 2

\* ++sequence_number
next_sequence_number(sequence_number) == sequence_number + 1

\* generate_event() when it does not throw: the simulator afterwards and the
\* event returned.  With replay events loaded the next stored event is
\* returned; otherwise the mid price takes a normal step of the volatility
\* (down, none or up) and stays at least 0.01, the book is updated, a trade
\* may happen, the event is stamped with current_time(), and its partial
\* fills are the fills that leave their order resting
generate_event(s) ==
    LET event_of(s5, t, kept) ==
            [s |-> s5,
             event |->
               [instrument |-> s5.instrument,
                best_bid_price |-> IF s5.bid_levels_ = <<>> THEN FZero
                                   ELSE s5.bid_levels_[1].price,
                best_ask_price |-> IF s5.ask_levels_ = <<>> THEN FZero
                                   ELSE s5.ask_levels_[1].price,
                best_bid_size |-> IF s5.bid_levels_ = <<>> THEN 0
                                  ELSE s5.bid_levels_[1].size,
                best_ask_size |-> IF s5.ask_levels_ = <<>> THEN 0
                                  ELSE s5.ask_levels_[1].size,
                bid_levels |-> s5.bid_levels_,
                ask_levels |-> s5.ask_levels_,
                trades |-> t.trades,
                partial_fills |->
                   [i \in DOMAIN kept |->
                       [order_id |-> kept[i].order_id, price |-> kept[i].price,
                        filled_size |-> kept[i].fill_qty,
                        remaining_size |-> kept[i].leaves_qty,
                        timestamp |-> kept[i].timestamp]],
                mm_fills |-> t.mm_fills,
                timestamp |-> s5.simulation_clock,
                sequence_number |-> s5.sequence_number]]
        numbered(s4, t) ==
            event_of([s4 EXCEPT !.sequence_number =
                                    next_sequence_number(s4.sequence_number)],
                     t, SelectSeq(t.mm_fills, LAMBDA fill : fill.leaves_qty > 0))
        stamped(t) == numbered(current_time(t.s), t)
        moved(s1, mid) ==
            stamped(simulate_trade_activity(update_order_book(
                [s1 EXCEPT !.mid_price = IF FLt(mid, Frac(1, 100)) THEN Frac(1, 100)
                                         ELSE mid])))
        stepped(s1) ==
            moved(s1, FAdd(s.mid_price, FMulInt(s.volatility, (s1.rng % 3) - 1)))
    IN  IF s.replay_events # <<>>
        THEN [s |-> [s EXCEPT !.replay_index = next_replay_index(s.replay_index)],
              event |-> s.replay_events[s.replay_index + 1]]
        ELSE stepped(draw(s))

\* maybe_write_event_log: the line and a line break, when the stream is open
maybe_write_event_log(s, file, event) ==
    IF s.logging THEN file \o serialize_event(event) \o <<"\n">> ELSE file

\* submit_order(order): matching_engine.add_order(order) on the simulator's
\* engine
submit_order(s, order) ==
    IF add_order_rejects(order) THEN [s |-> s, status |-> "REJECTED"]
    ELSE LET acked == [order EXCEPT !.status = "ACKNOWLEDGED"]
         IN  [s |-> [s EXCEPT
                       !.bids = IF order.side = "BUY"
                                THEN insert_at(s.bids, lower_bound(s.bids, acked, 1,
                                                                   Len(s.bids)), acked)
                                ELSE s.bids,
                       !.asks = IF order.side = "BUY" THEN s.asks
                                ELSE insert_at(s.asks, lower_bound(s.asks, acked, 1,
                                                                   Len(s.asks)), acked)],
              status |-> "ACKNOWLEDGED"]

\* cancel_order(order_id): matching_engine.cancel_order(order_id)
cancel_order(s, order_id) ==
    LET b == find_order(s.bids, order_id, 1)
        a == find_order(s.asks, order_id, 1)
    IN  [s |-> [s EXCEPT !.bids = IF b > 0 THEN erase_at(s.bids, b) ELSE s.bids,
                         !.asks = IF b = 0 /\ a > 0 THEN erase_at(s.asks, a)
                                  ELSE s.asks],
         found |-> b > 0 \/ a > 0]

----------------------------------------------------------------------------
(* The simulator driven call by call: a simulator that writes the event    *)
(* log, a second one built from the same configuration and given the same  *)
(* calls one call behind, and a simulator that replays the log.            *)

MaxSimCalls == 4
MaxWallClock == 2
MaxSimOrderId == 1

SeedIn == {1, 2, 3}

\* an instrument tag is any string
InstrumentIn == {<<"X", "Y", "Z">>, <<"X", "|", "Y">>}

\* the orders the market maker sends: an ask every buy trade crosses, a bid
\* every sell trade crosses
SimOrderIn ==
    {Order(id, "SELL", FromInt(1), qty, 0) : id \in 1..MaxSimOrderId, qty \in 1..max_trade_size}
    \cup {Order(id, "BUY", FromInt(9), qty, 0) : id \in 1..MaxSimOrderId, qty \in 1..max_trade_size}

NoEvent == [sequence_number |-> 0]

\* the last call: what was called with what, what each instance returned,
\* the simulator as the call found it, and whether the second instance has
\* yet to receive the call
SIM_call(op, target, arg, threw, event, status, pre) ==
    [op |-> op, target |-> target, arg |-> arg, threw |-> threw, event |-> event,
     status |-> status, pre |-> pre, twin_event |-> NoEvent,
     twin_status |-> "none", pending |-> target = "sim", loop_ended |-> FALSE]

SimCall ==
    /\ calls < MaxSimCalls
    /\ calls' = calls + 1
    /\ ~sim_call.pending

\* time passes on the machine while a call runs
WallClockAdvances ==
    \E w \in wall_clock..Min(wall_clock + 1, MaxWallClock) : wall_clock' = w

InitSim ==
    /\ RM_Init
    /\ ME_Init
    /\ AC_Init
    /\ MM_Init
    /\ clock = 0
    /\ calls = 0
    /\ wall_clock = 0
    /\ \E seed \in SeedIn, instrument \in InstrumentIn :
         /\ sim = MarketSimulator(SimulationConfig(instrument, seed, "events.log", "",
                                                   "Simulate"), <<>>).s
         /\ twin = MarketSimulator(SimulationConfig(instrument, seed, "events.log", "",
                                                    "Simulate"), <<>>).s
    /\ replay = NoSimulator
    /\ event_log = <<>>
    /\ emitted = <<>>
    /\ WS_Init
    /\ ST_Init
    /\ sim_call = [SIM_call("init", "none", 0, FALSE, NoEvent, "none", NoSimulator)
                      EXCEPT !.pending = FALSE]

\* the objects the simulator does not touch
SimUnchanged == UNCHANGED <<rm_vars, clock, rm_call, me_vars, me_call, ac_vars, ac_call,
                            mm_vars, ws_vars, st_vars>>

\* generate_event() on the simulator that writes the log
SimGenerateEvent ==
    /\ SimCall
    /\ \E r \in {generate_event(sim)} :
        /\ sim' = r.s
        /\ event_log' = maybe_write_event_log(sim, event_log, r.event)
        /\ emitted' = Append(emitted, r.event)
        /\ sim_call' = SIM_call("generate_event", "sim", 0, FALSE, r.event, "none", sim)
        /\ WallClockAdvances
        /\ UNCHANGED <<twin, replay>>
        /\ SimUnchanged

\* submit_order(order) on the simulator that writes the log
SimSubmitOrder ==
    \E order \in SimOrderIn :
        LET r == submit_order(sim, order)
        IN  /\ SimCall
            /\ sim' = r.s
            /\ sim_call' = SIM_call("submit_order", "sim", order, FALSE, NoEvent,
                                    r.status, sim)
            /\ WallClockAdvances
            /\ UNCHANGED <<twin, replay, event_log, emitted>>
            /\ SimUnchanged

\* cancel_order(order_id) on the simulator that writes the log
SimCancelOrder ==
    \E order_id \in 1..MaxSimOrderId :
        LET r == cancel_order(sim, order_id)
        IN  /\ SimCall
            /\ sim' = r.s
            /\ sim_call' = SIM_call("cancel_order", "sim", order_id, FALSE, NoEvent,
                                    IF r.found THEN "true" ELSE "false", sim)
            /\ WallClockAdvances
            /\ UNCHANGED <<twin, replay, event_log, emitted>>
            /\ SimUnchanged

\* the second instance receives the call the first one received
TwinCall ==
    /\ sim_call.pending
    /\ CASE sim_call.op = "generate_event" ->
              \E g \in {generate_event(twin)} :
                /\ twin' = g.s
                /\ sim_call' = [sim_call EXCEPT !.twin_event = g.event,
                                                !.pending = FALSE]
         [] sim_call.op = "submit_order" ->
              \E s \in {submit_order(twin, sim_call.arg)} :
                /\ twin' = s.s
                /\ sim_call' = [sim_call EXCEPT !.twin_status = s.status,
                                                !.pending = FALSE]
         [] sim_call.op = "cancel_order" ->
              \E c \in {cancel_order(twin, sim_call.arg)} :
                /\ twin' = c.s
                /\ sim_call' = [sim_call EXCEPT
                                  !.twin_status = IF c.found THEN "true" ELSE "false",
                                  !.pending = FALSE]
    /\ UNCHANGED <<sim, replay, event_log, emitted, wall_clock, calls>>
    /\ SimUnchanged

\* MarketSimulator(cfg) with cfg.mode Replay on the log written so far: the
\* constructor throws, or the simulator holds the events of the log
OpenReplay ==
    /\ SimCall
    /\ replay = NoSimulator
    /\ \E seed \in SeedIn :
      \E r \in {MarketSimulator(SimulationConfig(sim.instrument, seed, "", "events.log",
                                                  "Replay"), event_log)} :
            /\ IF r.threw
               THEN /\ replay' = replay
                    /\ sim_call' = SIM_call("construct", "replay", seed, TRUE, NoEvent,
                                            "none", replay)
               ELSE /\ replay' = r.s
                    /\ sim_call' = SIM_call("construct", "replay", seed, FALSE, NoEvent,
                                            "none", replay)
            /\ UNCHANGED <<sim, twin, event_log, emitted, wall_clock>>
            /\ SimUnchanged

\* generate_event() on the simulator that replays
ReplayGenerateEvent ==
    /\ SimCall
    /\ replay # NoSimulator
    /\ IF generate_event_throws(replay)
       THEN /\ replay' = replay
            /\ sim_call' = SIM_call("generate_event", "replay", 0, TRUE, NoEvent, "none",
                                    replay)
       ELSE \E r \in {generate_event(replay)} :
              /\ replay' = r.s
              /\ sim_call' = SIM_call("generate_event", "replay", 0, FALSE, r.event, "none",
                                      replay)
    /\ UNCHANGED <<sim, twin, event_log, emitted, wall_clock>>
    /\ SimUnchanged

\* one pass of the driver's loop over the simulator that replays:
\* try { md = simulator.generate_event(); } catch (const std::out_of_range&) { break; }
ReplayLoopIteration ==
    /\ SimCall
    /\ replay # NoSimulator
    /\ ~(sim_call.op = "loop_iteration" /\ sim_call.loop_ended)
    /\ IF generate_event_throws(replay)
       THEN /\ replay' = replay
            /\ sim_call' = [SIM_call("loop_iteration", "replay", 0, FALSE, NoEvent,
                                     "none", replay) EXCEPT !.loop_ended = TRUE]
       ELSE \E r \in {generate_event(replay)} :
              /\ replay' = r.s
              /\ sim_call' = SIM_call("loop_iteration", "replay", 0, FALSE, r.event, "none",
                                      replay)
    /\ UNCHANGED <<sim, twin, event_log, emitted, wall_clock>>
    /\ SimUnchanged

\* submit_order(order) on the simulator that replays
ReplaySubmitOrder ==
    \E order \in SimOrderIn :
        LET r == submit_order(replay, order)
        IN  /\ SimCall
            /\ replay # NoSimulator
            /\ replay' = r.s
            /\ sim_call' = SIM_call("submit_order", "replay", order, FALSE, NoEvent,
                                    r.status, replay)
            /\ UNCHANGED <<sim, twin, event_log, emitted, wall_clock>>
            /\ SimUnchanged

NextSim ==
    \/ SimGenerateEvent
    \/ SimSubmitOrder
    \/ SimCancelOrder
    \/ TwinCall
    \/ OpenReplay
    \/ ReplayGenerateEvent
    \/ ReplayLoopIteration
    \/ ReplaySubmitOrder

SpecSim == InitSim /\ [][NextSim]_vars

----------------------------------------------------------------------------
(* Claims about the simulator.                                              *)

\* the last call was generate_event() on the simulator that writes the log
Generated == sim_call.op = "generate_event" /\ sim_call.target = "sim"

\* C23: in simulate mode the k-th event generate_event returns has sequence
\* number k, so each is one more than the one before and the first is 1;
\* the timestamps never go back, and each is the simulator's own clock,
\* which the call stepped by one millisecond for the event and by one more
\* for its trade
C23_SequenceAndClock ==
    /\ \A k \in DOMAIN emitted :
         /\ emitted[k].sequence_number = k
         /\ k > 1 => /\ emitted[k].sequence_number = emitted[k - 1].sequence_number + 1
                     /\ emitted[k].timestamp >= emitted[k - 1].timestamp
    /\ Generated =>
         /\ sim_call.event = emitted[Len(emitted)]
         /\ sim_call.event.timestamp = sim.simulation_clock
         /\ sim.simulation_clock - sim_call.pre.simulation_clock
              = from_millis(1 + Len(sim_call.event.trades))
         /\ sim.sequence_number = Len(emitted)

\* three events in a row, one of them with a trade
C23_Witness ==
    /\ Generated
    /\ Len(emitted) = 3
    /\ emitted[2].trades # <<>>
    /\ emitted[3].timestamp = emitted[2].timestamp + from_millis(1)

LoggedFields(event) ==
    <<event.sequence_number, event.instrument, event.best_bid_price,
      event.best_ask_price, event.best_bid_size, event.best_ask_size,
      event.timestamp, event.bid_levels, event.ask_levels, event.trades,
      event.partial_fills>>

\* the last call constructed a replaying simulator on a log of events
Replayed == sim_call.op = "construct" /\ emitted # <<>>

\* C25: a log written in simulate mode loads, and the k-th event of the
\* replay equals the k-th event generated on every field the log keeps
C25_RoundTrip ==
    Replayed =>
        /\ ~sim_call.threw
        /\ replay # NoSimulator
        /\ Len(replay.replay_events) = Len(emitted)
        /\ \A k \in DOMAIN emitted :
             LoggedFields(replay.replay_events[k]) = LoggedFields(emitted[k])

\* the round trip of a log whose instrument holds no field separator
C25_RoundTripPlainInstrument ==
    (Replayed /\ find_char(sim.instrument, "|", 1) = 0) =>
        /\ ~sim_call.threw
        /\ Len(replay.replay_events) = Len(emitted)
        /\ \A k \in DOMAIN emitted :
             LoggedFields(replay.replay_events[k]) = LoggedFields(emitted[k])

\* a log with a trade and a partial fill has been loaded
C25_WitnessPlainInstrument ==
    /\ Replayed
    /\ ~sim_call.threw
    /\ \E k \in DOMAIN emitted : emitted[k].partial_fills # <<>>

\* the last call was generate_event() on the simulator that replays, made
\* directly or by the driver's loop
ReplayCalled == sim_call.target = "replay" /\ sim_call.op \in {"generate_event", "loop_iteration"}

\* C26: while events of the log remain, generate_event returns the next one
\* and moves on by one; once they are used up every call raises and leaves
\* the simulator as it was, and the driver's loop ends without an error
C26_ReplayExhaustion ==
    ReplayCalled =>
        LET pre == sim_call.pre
        IN  IF pre.replay_index < Len(pre.replay_events)
            THEN /\ ~sim_call.threw
                 /\ ~sim_call.loop_ended
                 /\ sim_call.event = pre.replay_events[pre.replay_index + 1]
                 /\ replay = [pre EXCEPT !.replay_index = pre.replay_index + 1]
            ELSE /\ replay = pre
                 /\ sim_call.event = NoEvent
                 /\ IF sim_call.op = "generate_event"
                    THEN sim_call.threw
                    ELSE sim_call.loop_ended /\ ~sim_call.threw

\* a call raised after the last event of the log had been returned
C26_Witness ==
    /\ ReplayCalled
    /\ sim_call.op = "generate_event"
    /\ sim_call.threw
    /\ sim_call.pre.replay_index = Len(sim_call.pre.replay_events)
    /\ sim_call.pre.replay_index >= 1

\* the driver's loop ended on the exhausted log
C26_WitnessLoop ==
    /\ ReplayCalled
    /\ sim_call.op = "loop_iteration"
    /\ sim_call.loop_ended
    /\ replay.replay_index = Len(replay.replay_events)

\* the fills the matching engine gives for the trades of an event against
\* the orders resting in simulator s
FreshFills(s, event) ==
    IF event.trades = <<>> THEN <<>>
    ELSE LET trade == event.trades[1]
         IN  match_walk(IF trade.aggressor_side = "BUY" THEN s.asks ELSE s.bids, 1,
                        trade.size, NoFills, trade.aggressor_side, trade.price,
                        trade.trade_id, trade.timestamp).fills

\* C27: a replayed event carries the fills of the orders resting in the
\* replaying simulator that its trades cross
C27_ReplayFills ==
    (ReplayCalled /\ sim_call.event # NoEvent) =>
        sim_call.event.mm_fills = FreshFills(sim_call.pre, sim_call.event)

\* in simulate mode an event carries the fills of the resting orders its
\* trades cross
C27_SimulateFills ==
    Generated => sim_call.event.mm_fills = FreshFills(sim_call.pre, sim_call.event)

----------------------------------------------------------------------------
(* The WebSocket session (WsSession.cpp): the protocol functions of         *)
(* namespace wsproto, and the session with its executor, its worker         *)
(* threads and its outbound queue.                                          *)

\* variant: a run is never rejected
rejects_overlap_never(state) == FALSE

\* if (state.simulation_active && !state.allow_overlap) return RejectOverlap;
rejects_overlap(state) == state.simulation_active /\ ~state.allow_overlap

\* wsproto::apply_command: the state afterwards and the action returned
apply_command(state, command) ==
    CASE command = "RunSimulation" ->
           IF rejects_overlap(state) THEN [state |-> state, action |-> "RejectOverlap"]
           ELSE [state |-> [state EXCEPT !.simulation_active = TRUE],
                 action |-> "StartSimulation"]
      [] command = "StopSimulation" ->
           IF ~state.simulation_active THEN [state |-> state, action |-> "Noop"]
           ELSE [state |-> [state EXCEPT !.simulation_active = FALSE],
                 action |-> "StopSimulation"]
      [] command = "EnableOverlap" ->
           [state |-> [state EXCEPT !.allow_overlap = TRUE], action |-> "Noop"]
      [] command = "DisableOverlap" ->
           [state |-> [state EXCEPT !.allow_overlap = FALSE], action |-> "Noop"]
      [] OTHER -> [state |-> state, action |-> "Noop"]

\* variant: every enqueue asks for a write
enqueue_starts_write_always(state) == TRUE

\* if (state.write_in_progress) return false; ... return true;
enqueue_starts_write(state) == ~state.write_in_progress

\* wsproto::enqueue_outbound: the state afterwards and the value returned
enqueue_outbound(state, message) ==
    [state |-> [queue |-> Append(state.queue, message), write_in_progress |-> TRUE],
     ret |-> enqueue_starts_write(state)]

\* wsproto::complete_outbound_write: the state afterwards and the value
\* returned
complete_outbound_write(state) ==
    LET queue == IF state.queue # <<>> THEN Tail(state.queue) ELSE state.queue
    IN  IF queue = <<>>
        THEN [state |-> [queue |-> queue, write_in_progress |-> FALSE], ret |-> FALSE]
        ELSE [state |-> [queue |-> queue, write_in_progress |-> state.write_in_progress],
              ret |-> TRUE]

\* make_status_json, make_error_json and make_update_json, by what the
\* client reads in them; run names the run a message belongs to
Message(type, status, run) == [type |-> type, status |-> status, run |-> run]

\* the last call of a wsproto function: its argument, what it returned, the
\* state it found and the state it left; and, over all calls on the queue,
\* the messages enqueued, the messages a caller was told to write, and the
\* number of messages popped
WS_call(op, arg, ret, pre, post) ==
    [op |-> op, arg |-> arg, ret |-> ret, pre |-> pre, post |-> post,
     enqueued |-> ws_call.enqueued, started |-> ws_call.started,
     popped |-> ws_call.popped]

----------------------------------------------------------------------------
(* The outbound queue driven by an arbitrary caller, as in                  *)
(* tests/test_ws_protocol.cpp: any sequence of enqueue_outbound and         *)
(* complete_outbound_write.                                                 *)

MaxProtoCalls == 7

MessageIn == {"a", "b"}

ProtoCall == calls < MaxProtoCalls /\ calls' = calls + 1

\* the objects the session does not touch
WsUnchanged == UNCHANGED <<rm_vars, clock, rm_call, me_vars, me_call, ac_vars, ac_call,
                           mm_vars, sim_vars, st_vars>>

\* the record of enqueue_outbound: the caller writes the front of the queue
\* (do_write) when it returned true
enqueue_call(r, message, pre) ==
    [WS_call("enqueue_outbound", message, r.ret, pre, r.state)
       EXCEPT !.enqueued = Append(@, message),
              !.started = IF r.ret THEN Append(@, Head(r.state.queue)) ELSE @]

\* the record of complete_outbound_write: the caller writes the new front of
\* the queue (do_write) when it returned true
complete_call(r, pre) ==
    [WS_call("complete_outbound_write", "none", r.ret, pre, r.state)
       EXCEPT !.popped = IF pre.queue # <<>> THEN @ + 1 ELSE @,
              !.started = IF r.ret THEN Append(@, Head(r.state.queue)) ELSE @]

ProtoEnqueue ==
    \E message \in MessageIn :
      LET r == enqueue_outbound(outbound_, message)
      IN  /\ ProtoCall
          /\ outbound_' = r.state
          /\ ws_call' = enqueue_call(r, message, outbound_)
          /\ UNCHANGED session
          /\ WsUnchanged

ProtoComplete ==
    LET r == complete_outbound_write(outbound_)
    IN  /\ ProtoCall
        /\ outbound_' = r.state
        /\ ws_call' = complete_call(r, outbound_)
        /\ UNCHANGED session
        /\ WsUnchanged

NextProto == ProtoEnqueue \/ ProtoComplete

SpecProto == Init /\ [][NextProto]_vars

\* C29: after any sequence of enqueue_outbound and complete_outbound_write
\* calls, write_in_progress is true exactly when the queue is non-empty;
\* enqueue_outbound appends the message and returns true exactly when no
\* write was in progress; complete_outbound_write pops the front message and
\* returns true exactly when a message remains; so the writes a caller was
\* told to start exceed the messages popped by at most one (one write in
\* flight), by one exactly while a write is in progress, and the messages
\* written are the messages enqueued, in the order they were enqueued.
C29_OutboundQueue ==
    /\ outbound_.write_in_progress <=> (outbound_.queue # <<>>)
    /\ ws_call.op = "enqueue_outbound" =>
         /\ ws_call.post.queue = Append(ws_call.pre.queue, ws_call.arg)
         /\ ws_call.ret <=> ~ws_call.pre.write_in_progress
    /\ ws_call.op = "complete_outbound_write" =>
         /\ ws_call.pre.queue # <<>> => ws_call.post.queue = Tail(ws_call.pre.queue)
         /\ ws_call.ret <=> (ws_call.post.queue # <<>>)
    /\ Len(ws_call.started) - ws_call.popped \in {0, 1}
    /\ (Len(ws_call.started) - ws_call.popped = 1) <=> outbound_.write_in_progress
    /\ Len(ws_call.started) <= Len(ws_call.enqueued)
    /\ ws_call.started = SubSeq(ws_call.enqueued, 1, Len(ws_call.started))

\* C29 witness: two different messages were enqueued while a write was in
\* progress, the first write completed with true, and the second message is
\* the one being written
C29_Witness ==
    /\ ws_call.op = "complete_outbound_write"
    /\ ws_call.ret
    /\ Len(ws_call.pre.queue) = 3
    /\ ws_call.pre.queue[1] # ws_call.pre.queue[2]
    /\ ws_call.popped = 1
    /\ ws_call.started = SubSeq(ws_call.enqueued, 1, 2)

----------------------------------------------------------------------------
(* One open session: the executor thread runs the handlers posted to it in  *)
(* the order they were posted (a single thread runs the io_context), each   *)
(* run of a simulation has a worker thread, and the client sends commands.  *)

MaxCommands == 3

MaxRuns == 2

\* WsSessionConfig::simulation_iterations, scaled
simulation_iterations == 1

CommandIn == {"RunSimulation", "StopSimulation", "EnableOverlap", "DisableOverlap",
              "Unknown"}

\* net::post(executor_, handler)
post(s, handler) == [s EXCEPT !.posted = Append(@, handler)]

\* WsSession::enqueue_outbound_message: the message reaches the queue when
\* the executor runs the posted handler
enqueue_outbound_message(s, message) ==
    post(s, [kind |-> "enqueue", message |-> message])

\* WsSession::has_active_simulation
has_active_simulation(s) ==
    \E i \in DOMAIN s.simulation_tasks_ : ~s.simulation_tasks_[i].done

\* WsSession::cleanup_finished_simulations
cleanup_finished_simulations(s) ==
    [s EXCEPT !.simulation_tasks_ = SelectSeq(@, LAMBDA task : ~task.done)]

\* WsSession::start_simulation_task: the worker starts at the head of the
\* loop of run_simulation
start_simulation_task(s) ==
    [s EXCEPT !.run_counter_ = @ + 1,
              !.simulation_tasks_ =
                  Append(@, [run_id |-> s.run_counter_ + 1, done |-> FALSE,
                             stop_requested |-> FALSE, pc |-> "loop",
                             iteration |-> 0, how |-> "none"])]

\* the session after on_accept: the status "connected" is posted
InitWs ==
    /\ RM_Init
    /\ ME_Init
    /\ AC_Init
    /\ MM_Init
    /\ SIM_Init
    /\ ST_Init
    /\ clock = 0
    /\ calls = 0
    /\ outbound_ = [queue |-> <<>>, write_in_progress |-> FALSE]
    /\ \E allow \in BOOLEAN :
         session = [open |-> TRUE, allow_overlapping_ |-> allow, run_counter_ |-> 0,
                    simulation_tasks_ |-> <<>>, joining |-> FALSE, writing |-> 0,
                    posted |-> <<[kind |-> "enqueue",
                                  message |-> Message("status", "connected", 0)]>>,
                    overlap_seen |-> allow, ended |-> {}]
    /\ ws_call = [op |-> "init", arg |-> "none", ret |-> "none", pre |-> "none",
                  post |-> "none", enqueued |-> <<>>, started |-> <<>>, popped |-> 0]

\* on_read and handle_command, up to its return or up to the join of the
\* workers in request_stop_all_simulations
HandleCommand ==
    \E command \in CommandIn :
      LET s1 == cleanup_finished_simulations(session)
          state == [simulation_active |-> has_active_simulation(s1),
                    allow_overlap |-> s1.allow_overlapping_]
          r == apply_command(state, command)
          s2 == [s1 EXCEPT !.allow_overlapping_ = r.state.allow_overlap,
                           !.overlap_seen = @ \/ r.state.allow_overlap]
          reply == CASE command = "EnableOverlap" -> Message("status", "ok", 0)
                     [] command = "DisableOverlap" -> Message("status", "ok", 0)
                     [] r.action = "RejectOverlap" ->
                          Message("error", "simulation_already_running", 0)
                     [] r.action = "StopSimulation" -> Message("status", "stopped", 0)
                     [] r.action = "StartSimulation" ->
                          Message("status", "started", s2.run_counter_ + 1)
                     [] OTHER -> Message("none", "none", 0)
      IN  /\ session.open
          /\ ~session.joining
          /\ calls < MaxCommands
          /\ command = "RunSimulation" => session.run_counter_ < MaxRuns
          /\ calls' = calls + 1
          /\ IF command = "Unknown"
             THEN /\ session' = enqueue_outbound_message(
                                    s1, Message("error", "unknown_command", 0))
                  /\ UNCHANGED ws_call
             ELSE /\ ws_call' = WS_call("apply_command", command,
                                        [action |-> r.action, reply |-> reply],
                                        state, r.state)
                  /\ session' =
                       CASE command \in {"EnableOverlap", "DisableOverlap"} ->
                              enqueue_outbound_message(s2, reply)
                         [] r.action = "RejectOverlap" ->
                              enqueue_outbound_message(s2, reply)
                         [] r.action = "StopSimulation" ->
                              [s2 EXCEPT !.joining = TRUE,
                                         !.simulation_tasks_ =
                                             [i \in DOMAIN @ |->
                                                [@[i] EXCEPT !.stop_requested = TRUE]]]
                         [] r.action = "StartSimulation" ->
                              enqueue_outbound_message(start_simulation_task(s2), reply)
                         [] OTHER -> s2
          /\ UNCHANGED outbound_
          /\ WsUnchanged

\* request_stop_all_simulations returns when every worker has been joined;
\* handle_command then posts the status "stopped"
JoinReturns ==
    /\ session.open
    /\ session.joining
    /\ \A i \in DOMAIN session.simulation_tasks_ :
         session.simulation_tasks_[i].pc = "exited"
    /\ session' = enqueue_outbound_message(
                      [session EXCEPT !.simulation_tasks_ = <<>>, !.joining = FALSE],
                      Message("status", "stopped", 0))
    /\ UNCHANGED <<outbound_, ws_call, calls>>
    /\ WsUnchanged

\* the head of the loop of run_simulation and one iteration: leave the loop
\* when the iterations are done or a stop was requested, otherwise handle
\* one event and post its update
WorkerIteration ==
    \E i \in DOMAIN session.simulation_tasks_ :
      LET task == session.simulation_tasks_[i]
      IN  /\ session.open
          /\ task.pc = "loop"
          /\ session' =
               IF task.iteration >= simulation_iterations
               THEN [session EXCEPT !.simulation_tasks_[i].pc = "after_loop",
                                    !.simulation_tasks_[i].how = "completed"]
               ELSE IF task.stop_requested
               THEN [session EXCEPT !.simulation_tasks_[i].pc = "after_loop",
                                    !.simulation_tasks_[i].how = "stopped"]
               ELSE enqueue_outbound_message(
                        [session EXCEPT !.simulation_tasks_[i].iteration = @ + 1],
                        Message("simulation_update", "running", task.run_id))
          /\ UNCHANGED <<outbound_, ws_call, calls>>
          /\ WsUnchanged

\* an exception inside run_simulation: the error is posted
WorkerFails ==
    \E i \in DOMAIN session.simulation_tasks_ :
      LET task == session.simulation_tasks_[i]
      IN  /\ session.open
          /\ task.pc = "loop"
          /\ task.iteration < simulation_iterations
          /\ session' = enqueue_outbound_message(
                            [session EXCEPT !.simulation_tasks_[i].pc = "finishing",
                                            !.simulation_tasks_[i].how = "failed"],
                            Message("error", "simulation_error", task.run_id))
          /\ UNCHANGED <<outbound_, ws_call, calls>>
          /\ WsUnchanged

\* after the loop: the final update (complete = true) is posted
WorkerFinalUpdate ==
    \E i \in DOMAIN session.simulation_tasks_ :
      LET task == session.simulation_tasks_[i]
      IN  /\ session.open
          /\ task.pc = "after_loop"
          /\ session' = enqueue_outbound_message(
                            [session EXCEPT !.simulation_tasks_[i].pc = "finishing"],
                            Message("simulation_update", "final", task.run_id))
          /\ UNCHANGED <<outbound_, ws_call, calls>>
          /\ WsUnchanged

\* the end of run_simulation: done is set, the cleanup is posted and the
\* thread exits
WorkerDone ==
    \E i \in DOMAIN session.simulation_tasks_ :
      LET task == session.simulation_tasks_[i]
      IN  /\ session.open
          /\ task.pc = "finishing"
          /\ session' = post([session EXCEPT !.simulation_tasks_[i].pc = "exited",
                                             !.simulation_tasks_[i].done = TRUE,
                                             !.ended = @ \cup {[run |-> task.run_id,
                                                                how |-> task.how]}],
                             [kind |-> "cleanup", message |-> Message("none", "none", 0)])
          /\ UNCHANGED <<outbound_, ws_call, calls>>
          /\ WsUnchanged

\* the executor runs the handler posted first: the handler of
\* enqueue_outbound_message, which starts a write when enqueue_outbound
\* says so, or the cleanup posted by a worker
ExecutorRuns ==
    /\ session.open
    /\ ~session.joining
    /\ session.posted # <<>>
    /\ LET handler == Head(session.posted)
           s1 == [session EXCEPT !.posted = Tail(@)]
           r == enqueue_outbound(outbound_, handler.message)
       IN  IF handler.kind = "enqueue"
           THEN /\ outbound_' = r.state
                /\ ws_call' = enqueue_call(r, handler.message, outbound_)
                /\ session' = [s1 EXCEPT !.writing = IF r.ret THEN @ + 1 ELSE @]
           ELSE /\ session' = cleanup_finished_simulations(s1)
                /\ UNCHANGED <<outbound_, ws_call>>
    /\ UNCHANGED calls
    /\ WsUnchanged

\* on_write without an error: the write in flight has completed, and the
\* next one starts when complete_outbound_write says so
OnWrite ==
    /\ session.open
    /\ ~session.joining
    /\ session.writing > 0
    /\ LET r == complete_outbound_write(outbound_)
       IN  /\ outbound_' = r.state
           /\ ws_call' = complete_call(r, outbound_)
           /\ session' = [session EXCEPT !.writing = IF r.ret THEN @ ELSE @ - 1]
    /\ UNCHANGED calls
    /\ WsUnchanged

NextWs ==
    \/ HandleCommand
    \/ JoinReturns
    \/ WorkerIteration
    \/ WorkerFails
    \/ WorkerFinalUpdate
    \/ WorkerDone
    \/ ExecutorRuns
    \/ OnWrite

SpecWs == InitWs /\ [][NextWs]_vars

----------------------------------------------------------------------------
(* Claims about the session.                                                *)

\* the tasks of the session whose run has not finished
ActiveTasks == {i \in DOMAIN session.simulation_tasks_ : ~session.simulation_tasks_[i].done}

\* C28: a run_simulation command handled while a simulation is active and
\* allow_overlap is false returns RejectOverlap, is answered with the error
\* simulation_already_running and leaves the protocol state as it was; a
\* session on which overlap was never allowed has at most one active
\* simulation; stop_simulation clears the active flag when it is set
\* (StopSimulation) and changes nothing otherwise (Noop); enable_overlap and
\* disable_overlap set allow_overlap and leave the active flag alone.
C28_OverlapGuard ==
    /\ ~session.overlap_seen => Cardinality(ActiveTasks) <= 1
    /\ ws_call.op = "apply_command" =>
         LET pre == ws_call.pre
             after == ws_call.post
             command == ws_call.arg
         IN  /\ (command = "RunSimulation" /\ pre.simulation_active /\ ~pre.allow_overlap) =>
                  /\ ws_call.ret.action = "RejectOverlap"
                  /\ ws_call.ret.reply = Message("error", "simulation_already_running", 0)
                  /\ after = pre
             /\ (command = "StopSimulation" /\ pre.simulation_active) =>
                  /\ ws_call.ret.action = "StopSimulation"
                  /\ after = [pre EXCEPT !.simulation_active = FALSE]
             /\ (command = "StopSimulation" /\ ~pre.simulation_active) =>
                  /\ ws_call.ret.action = "Noop"
                  /\ after = pre
             /\ command = "EnableOverlap" =>
                  after = [pre EXCEPT !.allow_overlap = TRUE]
             /\ command = "DisableOverlap" =>
                  after = [pre EXCEPT !.allow_overlap = FALSE]

\* C28 witness: a second run_simulation was rejected while the first run was
\* active and overlap had never been allowed
C28_Witness ==
    /\ ws_call.op = "apply_command"
    /\ ws_call.arg = "RunSimulation"
    /\ ws_call.pre.simulation_active
    /\ ~ws_call.pre.allow_overlap
    /\ ws_call.ret.action = "RejectOverlap"
    /\ ~session.overlap_seen
    /\ Cardinality(ActiveTasks) = 1
    /\ session.run_counter_ = 1

\* C28 witness: stop_simulation with an active run cleared the flag
C28_WitnessStop ==
    /\ ws_call.op = "apply_command"
    /\ ws_call.arg = "StopSimulation"
    /\ ws_call.pre.simulation_active
    /\ ~ws_call.post.simulation_active

\* the session with its threads scheduled fairly: the executor runs what was
\* posted, writes complete, workers run, joins return; the client need not
\* send anything
SpecWsLive ==
    /\ InitWs
    /\ [][NextWs]_vars
    /\ WF_vars(ExecutorRuns)
    /\ WF_vars(OnWrite)
    /\ WF_vars(JoinReturns)
    /\ WF_vars(WorkerIteration)
    /\ WF_vars(WorkerFinalUpdate)
    /\ WF_vars(WorkerDone)

RunIds == 1..MaxRuns

\* the run has terminated in the given way
Terminated(run, how) == [run |-> run, how |-> how] \in session.ended

\* every update of the run has reached the outbound queue, and a status
\* "stopped" was enqueued after the last of them
StoppedAfterLastUpdate(run) ==
    /\ \A i \in DOMAIN session.posted :
         ~(/\ session.posted[i].kind = "enqueue"
           /\ session.posted[i].message.type = "simulation_update"
           /\ session.posted[i].message.run = run)
    /\ \E j \in DOMAIN ws_call.enqueued :
         /\ ws_call.enqueued[j] = Message("status", "stopped", 0)
         /\ \A i \in DOMAIN ws_call.enqueued :
              (/\ ws_call.enqueued[i].type = "simulation_update"
               /\ ws_call.enqueued[i].run = run) => i < j

\* C30: every termination of a run on an open session, by completing its
\* iterations, by failing or by stop_simulation, is followed by a status
\* "stopped" enqueued after the last update of the run.
C30_StoppedFollowsTermination ==
    \A run \in RunIds :
      (\E how \in {"completed", "failed", "stopped"} : Terminated(run, how))
        ~> StoppedAfterLastUpdate(run)

\* a run that stop_simulation ended is followed by the status "stopped"
\* after its last update
StoppedFollowsStop ==
    \A run \in RunIds : Terminated(run, "stopped") ~> StoppedAfterLastUpdate(run)

\* a run completed its iterations, its final update is the last message
\* enqueued, nothing is posted and no status "stopped" was ever enqueued
CompletedWithoutStopped ==
    /\ Terminated(1, "completed")
    /\ session.posted = <<>>
    /\ ws_call.enqueued # <<>>
    /\ ws_call.enqueued[Len(ws_call.enqueued)] = Message("simulation_update", "final", 1)
    /\ \A i \in DOMAIN ws_call.enqueued : ws_call.enqueued[i].status # "stopped"

----------------------------------------------------------------------------
(* Arrival order in the book.  The driver numbers the orders it adds in    *)
(* the order of the calls, so of two resting orders the one with the       *)
(* smaller id was added first.                                             *)

\* two resting orders of one book that tie on price and creation time
TiedAt(book, i, j) ==
    /\ book[i].price = book[j].price
    /\ book[i].created_at = book[j].created_at

\* C38: of two orders with the same side, price and created_at, the one
\* added first stays ahead of the other in the book, and is therefore the
\* first of the two that match_incoming_order fills.
C38_ArrivalStable ==
    \A book \in {bid_book, ask_book} :
      \A i, j \in DOMAIN book :
        (i < j /\ TiedAt(book, i, j)) => book[i].order_id < book[j].order_id

\* an incoming order was matched against two tied resting orders and filled
\* the one added last, while the one added first still rests in full
TiedFilledLastFirst ==
    /\ me_call.op = "match_incoming_order"
    /\ Len(me_call.fills) = 1
    /\ \E i \in DOMAIN PassiveAfter, j \in DOMAIN PassiveBefore :
         /\ PassiveBefore[j].order_id = me_call.fills[1].order_id
         /\ PassiveAfter[i].order_id < PassiveBefore[j].order_id
         /\ PassiveAfter[i].price = PassiveBefore[j].price
         /\ PassiveAfter[i].created_at = PassiveBefore[j].created_at
         /\ PassiveAfter[i].leaves_qty = PassiveAfter[i].original_qty

----------------------------------------------------------------------------
(* Accounting identities over fills and marks.                              *)

\* on_fill and mark_to_market only: the account is never reset
NextFills == OnFill \/ MarkToMarket

SpecFills == InitAcct /\ [][NextFills]_vars

\* C35: after any sequence of on_fill and mark_to_market calls, with no
\* reset_daily among them, the mark-to-market value gained,
\* cash - initial_capital + position * mark_price, equals
\* realized_pnl + unrealized_pnl
C35_MarkToMarketIdentity ==
    FAdd(FSub(cash_, initial_capital_), FMulInt(mark_price_, position_))
        = FAdd(realized_pnl_, unrealized_pnl_)

\* a long was sold through into a short at a profit, and the short is then
\* marked away from its entry price
C35_Witness ==
    /\ ac_call.op = "mark_to_market"
    /\ position_ < 0
    /\ FGt(realized_pnl_, FZero)
    /\ unrealized_pnl_ # FZero
    /\ mark_price_ # avg_entry_price

\* what a fill charges: the basis-point fee on the notional, and the
\* per-share taker fee when the fill is not a maker's
fees_charged(price, qty, is_maker) ==
    FAdd(FMul(FMulInt(price, qty), FDivInt(fees_.fee_bps, 10000)),
         IF is_maker THEN FZero ELSE FMulInt(fees_.taker_fee_per_share, qty))

\* what a fill earns: the per-share maker rebate when the fill is a maker's
rebate_earned(qty, is_maker) ==
    IF is_maker THEN FMulInt(fees_.maker_rebate_per_share, qty) ELSE FZero

\* C36: each maker rebate is credited to net P&L exactly once: every fill
\* moves net_pnl() - total_pnl() by the rebate it earns less the
\* basis-point and taker fees it is charged, so that the difference is the
\* sum of the rebates less the sum of the fees charged
C36_RebateCreditedOnce ==
    ac_call.op = "on_fill" =>
        FSub(net_pnl, total_pnl)
            = FAdd(FSub(ac_call.total_rebates, ac_call.total_fees),
                   FSub(rebate_earned(ac_call.qty, ac_call.is_maker),
                        fees_charged(ac_call.price, ac_call.qty, ac_call.is_maker)))

\* one maker fill on a schedule that pays a rebate: net P&L is above total
\* P&L by twice the rebate less the fee charged
RebateCreditedTwice ==
    /\ ac_call.op = "on_fill"
    /\ ac_call.is_maker
    /\ ac_call.total_rebates = FZero
    /\ ac_call.total_fees = FZero
    /\ FGt(total_rebates_, FZero)
    /\ FSub(net_pnl, total_pnl)
         = FSub(FMulInt(rebate_earned(ac_call.qty, TRUE), 2),
                fees_charged(ac_call.price, ac_call.qty, TRUE))

----------------------------------------------------------------------------
(* The stale-data gap across evaluate calls.  The drivers pass each         *)
(* evaluate call the event time clock + d and leave the clock alone in      *)
(* every other call, so before a call the clock is the event time of the    *)
(* evaluate call before it.                                                 *)

\* the StaleMarketData result of the rules evaluate has just run
stale_result == last_results_[6]

\* C39: the StaleMarketData value of an evaluate call is the milliseconds
\* elapsed since the event of the evaluate call immediately before it,
\* whether or not that call was made with the kill switch engaged, and 0
\* (Normal) on the very first evaluate call
C39_StaleGap ==
    [][(calls' = calls + 1 /\ rm_call'.op = "evaluate" /\ rm_call'.worst # "none")
         => /\ stale_result'.rule_id = "StaleMarketData"
            /\ stale_result'.current_value =
                   IF rm_call.evaluated THEN FromInt(clock' - clock) ELSE FZero
            /\ (~rm_call.evaluated => stale_result'.level = "Normal")]_vars

\* an evaluate call reports a gap that reaches past the evaluate call
\* before it: that call was made with the kill switch engaged
StaleGapSkipsKillSwitchCall ==
    /\ rm_call.op = "evaluate"
    /\ rm_call.worst # "none"
    /\ rm_call.from = "Normal"
    /\ stale_result.level = "Breached"
    /\ FGt(stale_result.current_value, FromInt(cooldown_ms))

----------------------------------------------------------------------------
(* Recovery from Breached by evaluation alone.  The driver first makes any  *)
(* calls (evaluate on any tick, engage_kill_switch, reset_kill_switch),     *)
(* and from then on calls evaluate only, one millisecond apart, on ticks    *)
(* with a flat position, no drawdown and no spread.  The run loop calls     *)
(* evaluate on every event, so the quiet ticks are weakly fair.             *)

MaxNoisyCalls == 4

\* quiet ticks explored: one that may still see a long stale-data gap, then
\* the cooldown
QuietTicks == cooldown_ms + 2

NoisyCall == calls < MaxNoisyCalls /\ calls' = calls + 1

NoisyEvaluate ==
    \E d \in 0..cooldown_ms, in \in DwellTickIn :
        /\ NoisyCall
        /\ clock' = clock + d
        /\ RM_evaluate([position |-> in.position, net_pnl |-> FromInt(in.pnl)],
                       [timestamp |-> clock + d, best_bid_price |-> BestBidIn,
                        best_ask_price |-> FAdd(BestBidIn, FromInt(in.spread))],
                       FromInt(in.mark))
        /\ UNCHANGED <<me_vars, me_call, ac_vars, ac_call, mm_vars, io_vars>>

NoisyEngageKillSwitch ==
    /\ NoisyCall
    /\ RM_engage_kill_switch
    /\ UNCHANGED <<clock, me_vars, me_call, ac_vars, ac_call, mm_vars, io_vars>>

NoisyResetKillSwitch ==
    /\ NoisyCall
    /\ RM_reset_kill_switch
    /\ UNCHANGED <<clock, me_vars, me_call, ac_vars, ac_call, mm_vars, io_vars>>

QuietEvaluate ==
    /\ calls >= MaxNoisyCalls
    /\ calls < MaxNoisyCalls + QuietTicks
    /\ calls' = calls + 1
    /\ clock' = clock + 1
    /\ RM_evaluate([position |-> 0, net_pnl |-> FZero],
                   [timestamp |-> clock + 1, best_bid_price |-> BestBidIn,
                    best_ask_price |-> BestBidIn],
                   FromInt(1))
    /\ UNCHANGED <<me_vars, me_call, ac_vars, ac_call, mm_vars, io_vars>>

NextRecover ==
    NoisyEvaluate \/ NoisyEngageKillSwitch \/ NoisyResetKillSwitch \/ QuietEvaluate

\* a quiet tick as the call counter shows it: no other call is made once the
\* quiet ticks have begun
QuietTick ==
    /\ calls >= MaxNoisyCalls
    /\ calls < MaxNoisyCalls + QuietTicks
    /\ calls' = calls + 1

SpecRecover == Init /\ [][NextRecover]_vars /\ WF_calls(QuietTick)

\* C33: a manager that is in Breached when the quiet ticks begin, however it
\* got there, is eventually back in Normal
C33_BreachedRecovers ==
    (state_ = "Breached" /\ calls = MaxNoisyCalls) ~> (state_ = "Normal")

\* after every quiet tick, the last ones with all seven rules Normal and
\* more than the cooldown after the first, the manager is still in Breached:
\* it was put there by reset_kill_switch and no breach timestamp is latched
BreachedWithoutLatch ==
    /\ calls = MaxNoisyCalls + QuietTicks
    /\ state_ = "Breached"
    /\ ~breach_timestamp_set_
    /\ rm_call.op = "evaluate"
    /\ rm_call.worst = "Normal"

\* a manager whose breach was latched by evaluate is in Normal again by the
\* end of the quiet ticks
LatchedBreachRecovers ==
    (calls = MaxNoisyCalls + QuietTicks /\ state_ = "Breached")
        => ~breach_timestamp_set_

----------------------------------------------------------------------------
(* A new run after the final update of the last one.                        *)

\* the worker of the task has posted the terminal simulation_update of its
\* run
FinalUpdatePosted(task) ==
    task.pc \in {"finishing", "exited"} /\ task.how \in {"completed", "stopped"}

\* the terminal simulation_update of the run waits for the executor
FinalUpdateWaits(s, run_id) ==
    \E k \in DOMAIN s.posted :
        /\ s.posted[k].kind = "enqueue"
        /\ s.posted[k].message = Message("simulation_update", "final", run_id)

\* C40: without overlap, a run_simulation command handled after the worker
\* of every run of the session has enqueued its terminal simulation_update
\* is accepted, and never answered with simulation_already_running
C40_AcceptedAfterFinalUpdate ==
    [][(/\ calls' = calls + 1
        /\ ws_call'.op = "apply_command"
        /\ ws_call'.arg = "RunSimulation"
        /\ ~session.allow_overlapping_
        /\ \A i \in DOMAIN session.simulation_tasks_ :
              FinalUpdatePosted(session.simulation_tasks_[i]))
         => ws_call'.ret.action = "StartSimulation"]_vars

\* a run_simulation command has just been rejected although the final
\* update of the only run had already reached the outbound queue: its
\* worker has not yet set done
RejectedAfterFinalUpdate ==
    /\ ws_call.op = "apply_command"
    /\ ws_call.arg = "RunSimulation"
    /\ ws_call.ret.action = "RejectOverlap"
    /\ ~session.overlap_seen
    /\ Len(session.simulation_tasks_) = 1
    /\ session.simulation_tasks_[1].pc = "finishing"
    /\ session.simulation_tasks_[1].how = "completed"
    /\ ~FinalUpdateWaits(session, session.simulation_tasks_[1].run_id)

----------------------------------------------------------------------------
(* The active-orders map against the matching engine, under SpecMM: every   *)
(* order in the engine is one the market maker submitted.                   *)

\* the map and the engine hold the same orders with the same leaves, at
\* most one bid and one ask
MapMatchesEngine ==
    /\ DOMAIN active_orders = {o.order_id : o \in Resting}
    /\ \A o \in Resting : active_orders[o.order_id].leaves_qty = o.leaves_qty
    /\ \A side \in Sides :
         Cardinality({id \in DOMAIN active_orders : active_orders[id].side = side}) <= 1

MapKeepsFilledOrder ==
    /\ Returned
    /\ mm_call.path = "empty_book"
    /\ \E i \in DOMAIN mm_call.mm_fills :
         LET fill == mm_call.mm_fills[i]
         IN  /\ fill.leaves_qty = 0
             /\ fill.order_id \in DOMAIN active_orders
             /\ fill.order_id \notin {o.order_id : o \in Resting}

\* on every call that gets past the empty-book test the map and the engine
\* agree when it returns
MapMatchesEngineUnlessSkipped ==
    (Returned /\ mm_call.path # "empty_book") => MapMatchesEngine

----------------------------------------------------------------------------
(* Continuous two-sided quoting under the default RiskConfig, on the        *)
(* simulator's logical clock.  Every tick the orchestrator has the risk     *)
(* manager evaluate the event, cancels the two quotes it has resting and,   *)
(* when quoting is allowed, records two new quotes at the event's time.     *)
(* The account stays flat and the book tight, so that only the two rate     *)
(* rules can leave Normal.                                                  *)

\* RiskConfig{}: the defaults, the durations in milliseconds
DefaultRiskConfig ==
    [max_net_position |-> 1000, max_notional_exposure |-> 500000,
     max_drawdown |-> 10000, max_quotes_per_second |-> 50,
     max_cancels_per_second |-> 50, rate_window_ms |-> 1000,
     max_stale_data_ms |-> 5000, warning_threshold_pct |-> Frac(4, 5),
     cooldown_ms |-> 5000, max_quote_spread |-> Frac(1, 2)]

MaxQuotingTicks == 27

\* ticks with a trade in the event
MaxTradeTicks == 2

\* classify under a given configuration
classify_under(cfg, ratio) ==
    IF FGe(ratio, FromInt(1)) THEN "Breached"
    ELSE IF FGe(ratio, cfg.warning_threshold_pct) THEN "Warning"
    ELSE "Normal"

\* eval_max_quote_rate and eval_max_cancel_rate under a given configuration,
\* on the pruned window q: size / rate_window_seconds against the limit
eval_rate_under(cfg, id, q, limit, tag) ==
    RiskRuleResult(id,
                   classify_under(cfg, FDiv(Frac(Len(q) * 1000, cfg.rate_window_ms),
                                            FromInt(limit))),
                   Frac(Len(q) * 1000, cfg.rate_window_ms), FromInt(limit), tag)

\* the seven results of a tick with a flat account, no drawdown and no
\* spread, the event gap milliseconds after the one before
quoting_tick_results(cfg, quotes, cancels, gap) ==
    << RiskRuleResult("MaxNetPosition", "Normal", FZero,
                      FromInt(cfg.max_net_position), "net_position"),
       RiskRuleResult("MaxNotionalExposure", "Normal", FZero,
                      FromInt(cfg.max_notional_exposure), "gross_exposure"),
       RiskRuleResult("MaxDrawdown", "Normal", FZero,
                      FromInt(cfg.max_drawdown), "drawdown"),
       eval_rate_under(cfg, "MaxQuoteRate", quotes, cfg.max_quotes_per_second,
                       "quote_rate"),
       eval_rate_under(cfg, "MaxCancelRate", cancels, cfg.max_cancels_per_second,
                       "cancel_rate"),
       IF last_md_timestamp_set_
       THEN RiskRuleResult("StaleMarketData",
                           classify_under(cfg, Frac(gap, cfg.max_stale_data_ms)),
                           FromInt(gap), FromInt(cfg.max_stale_data_ms), "stale_ms")
       ELSE RiskRuleResult("StaleMarketData", "Normal", FZero,
                           FromInt(cfg.max_stale_data_ms), "first_tick"),
       RiskRuleResult("MaxQuoteSpread", "Normal", FZero, cfg.max_quote_spread,
                      "spread") >>

\* the state switch of evaluate under a given configuration
next_state_under(cfg, worst, ts) ==
    CASE state_ \in {"Normal", "Warning"} -> worst
      [] state_ = "Breached" ->
            IF worst = "Normal" /\ breach_timestamp_set_
               /\ ts - breach_timestamp_ >= cfg.cooldown_ms
            THEN "Normal" ELSE "Breached"
      [] state_ = "KillSwitch" -> "KillSwitch"

\* quotes the orchestrator has resting: the two of the tick before, when
\* quoting was allowed on it
RestingQuotes ==
    IF rm_call.op = "evaluate" /\ rm_call.ret \in {"Normal", "Warning"}
    THEN 2 ELSE 0

\* n records at one time
Stamps(n, ts) == [i \in 1..n |-> ts]

\* what one tick leaves in the risk manager: the evaluation of the event,
\* then the cancels and the quotes recorded at its time
quoting_tick(ts, quotes, cancels, results, worst, next) ==
    /\ last_results_' = results
    /\ state_' = next
    /\ breach_timestamp_' = IF latches_breach(worst) THEN ts ELSE breach_timestamp_
    /\ breach_timestamp_set_' = (breach_timestamp_set_ \/ latches_breach(worst))
    /\ hwm_initialized_' = TRUE
    /\ last_md_timestamp_' = ts
    /\ last_md_timestamp_set_' = TRUE
    /\ cancel_timestamps_' = cancels \o Stamps(RestingQuotes, ts)
    /\ quote_timestamps_' =
           quotes \o Stamps(IF next \in {"Normal", "Warning"} THEN 2 ELSE 0, ts)
    /\ rm_call' = [op |-> "evaluate", ts |-> ts, from |-> state_, worst |-> worst,
                   ret |-> next,
                   last_quoting_eval |-> IF next \in {"Normal", "Warning"} THEN ts
                                         ELSE rm_call.last_quoting_eval,
                   net_pnl |-> FZero, evaluated |-> TRUE, rules_ran |-> TRUE]
    /\ UNCHANGED <<high_water_mark_, drawdown_>>

\* one event of the simulator and the orchestrator's tick on it: the event
\* is stamped by current_time(), which moves the logical clock by 1 ms, after
\* the trade of the event, if there is one, was stamped the same way
QuotingTick ==
    \E d \in 1..2 :
        /\ calls < MaxQuotingTicks
        /\ d = 2 => clock - calls < MaxTradeTicks
        /\ calls' = calls + 1
        /\ clock' = clock + d
        /\ \E quotes \in {prune(quote_timestamps_,
                                clock + d - DefaultRiskConfig.rate_window_ms)},
              cancels \in {prune(cancel_timestamps_,
                                 clock + d - DefaultRiskConfig.rate_window_ms)} :
             \E results \in {quoting_tick_results(DefaultRiskConfig, quotes, cancels, d)} :
               \E worst \in {worst_of(results, "Normal")} :
                 quoting_tick(clock + d, quotes, cancels, results, worst,
                              next_state_under(DefaultRiskConfig, worst, clock + d))
        /\ UNCHANGED <<me_vars, me_call, ac_vars, ac_call, mm_vars, io_vars>>

NextQuoting == QuotingTick

SpecQuoting == Init /\ [][NextQuoting]_vars

\* C34: under the defaults, quoting both sides on every tick of the
\* simulator's clock never has the MaxQuoteRate or the MaxCancelRate rule
\* breached, and so never takes the risk state to Breached
C34_QuotingSustainable ==
    /\ state_ # "Breached"
    /\ \A i \in DOMAIN last_results_ :
         last_results_[i].rule_id \in {"MaxQuoteRate", "MaxCancelRate"}
            => last_results_[i].level # "Breached"

\* the tick that finds fifty quotes in the window: the quote rate is at its
\* limit, every other rule is short of a breach, and the state is Breached
QuoteRateBreached ==
    /\ rm_call.op = "evaluate"
    /\ rm_call.from = "Warning"
    /\ state_ = "Breached"
    /\ last_results_[4].level = "Breached"
    /\ last_results_[4].current_value = FromInt(50)
    /\ \A i \in DOMAIN last_results_ : i # 4 => last_results_[i].level # "Breached"

----------------------------------------------------------------------------
(* Strategies (src/include/Strategy.h): the reservation-price strategy      *)
(* with its rolling estimators, and the heuristic strategy.  sigma enters   *)
(* compute_quotes only as sigma * sigma, the sample variance of the simple  *)
(* returns, which is rational; the logarithmic term of the optimal spread   *)
(* depends on the configuration only and is held in it as log_term.         *)

FAbs(x) == [n |-> Abs(x.n), d |-> x.d]

FMax(a, b) == IF FLt(a, b) THEN b ELSE a

FMin(a, b) == IF FLt(b, a) THEN b ELSE a

\* static_cast<int>(x): truncation toward zero
static_cast_int(x) == IF x.n >= 0 THEN x.n \div x.d ELSE -((-x.n) \div x.d)

Max(a, b) == IF a < b THEN b ELSE a

RECURSIVE FSum(_)
FSum(xs) == IF xs = <<>> THEN FZero ELSE FAdd(Head(xs), FSum(Tail(xs)))

\* push_back, then pop_front when the deque has outgrown its bound
push_bounded(q, x, bound) ==
    IF Len(q) + 1 > bound THEN Tail(Append(q, x)) ELSE Append(q, x)

\* explicit RollingVolatility(size_t window)
RollingVolatility(window) == [window_ |-> window, mids_ |-> <<>>, returns_ |-> <<>>]

\* RollingVolatility::on_mid
on_mid(v, mid) ==
    [v EXCEPT !.returns_ =
                  IF v.mids_ # <<>> /\ FGt(v.mids_[Len(v.mids_)], FZero)
                  THEN push_bounded(@, FDiv(FSub(mid, v.mids_[Len(v.mids_)]),
                                            v.mids_[Len(v.mids_)]),
                                    v.window_)
                  ELSE @,
              !.mids_ = push_bounded(@, mid, v.window_ + 1)]

\* the sum of the squared deviations from a mean
squared_deviations(returns, mean) ==
    FSum([i \in DOMAIN returns |->
             FMul(FSub(returns[i], mean), FSub(returns[i], mean))])

\* RollingVolatility::sigma, squared: the sample variance of the returns
sigma2(v) ==
    IF Len(v.returns_) < 2 THEN FZero
    ELSE FDivInt(squared_deviations(v.returns_,
                                    FDivInt(FSum(v.returns_), Len(v.returns_))),
                 Len(v.returns_) - 1)

\* explicit RollingOFI(size_t window)
RollingOFI(window) == [window_ |-> window, signed_volumes_ |-> <<>>]

\* RollingOFI::on_trades
RECURSIVE on_trades(_, _)
on_trades(o, trades) ==
    IF trades = <<>> THEN o
    ELSE on_trades([o EXCEPT !.signed_volumes_ =
                        push_bounded(@, IF Head(trades).aggressor_side = "BUY"
                                        THEN Head(trades).size
                                        ELSE -Head(trades).size,
                                     o.window_)],
                   Tail(trades))

RECURSIVE SumInt(_)
SumInt(xs) == IF xs = <<>> THEN 0 ELSE Head(xs) + SumInt(Tail(xs))

\* RollingOFI::normalized_ofi
normalized_ofi(o) ==
    IF o.signed_volumes_ = <<>> THEN FZero
    ELSE IF SumInt([i \in DOMAIN o.signed_volumes_ |-> Abs(o.signed_volumes_[i])]) = 0
    THEN FZero
    ELSE Frac(SumInt(o.signed_volumes_),
              SumInt([i \in DOMAIN o.signed_volumes_ |-> Abs(o.signed_volumes_[i])]))

\* AvellanedaStoikovConfig: the defaults but for the windows, the toxic
\* threshold and pull_on_toxic; log_term is (2 / gamma) * ln(1 + gamma / kappa)
\* for gamma = 0.1 and kappa = 1.5, to two decimals
AvellanedaStoikovConfig(pull_on_toxic, ofi_window) ==
    [constructed |-> TRUE, gamma |-> Frac(1, 10), T |-> FromInt(1),
     log_term |-> Frac(129, 100),
     min_spread_bps |-> FromInt(5), max_spread_bps |-> FromInt(200),
     ofi_spread_factor |-> Frac(1, 2), base_size |-> 5,
     size_inventory_scale |-> FromInt(1), toxic_ofi_threshold |-> Frac(1, 2),
     pull_on_toxic |-> pull_on_toxic, vol_window |-> 2, ofi_window |-> ofi_window]

QuoteDecision(bid_price, ask_price, bid_size, ask_size, should_quote) ==
    [bid_price |-> bid_price, ask_price |-> ask_price, bid_size |-> bid_size,
     ask_size |-> ask_size, should_quote |-> should_quote]

\* variant: quotes are pulled from the threshold on
pulls_quotes_at_threshold(cfg, ofi) ==
    FGe(FAbs(ofi), cfg.toxic_ofi_threshold) /\ cfg.pull_on_toxic

\* std::abs(ofi) > config_.toxic_ofi_threshold && config_.pull_on_toxic
pulls_quotes(cfg, ofi) ==
    FGt(FAbs(ofi), cfg.toxic_ofi_threshold) /\ cfg.pull_on_toxic

\* gamma * sigma^2 * T
variance_term(cfg, variance) == FMul(cfg.gamma, FMul(variance, cfg.T))

\* the optimal spread, widened by the order-flow imbalance and clamped to
\* [min_spread_bps, max_spread_bps] of mid
optimal_spread(cfg, mid, variance, ofi) ==
    FMax(FDivInt(FMul(cfg.min_spread_bps, mid), 10000),
         FMin(FMul(FAdd(variance_term(cfg, variance), cfg.log_term),
                   FAdd(FromInt(1), FMul(cfg.ofi_spread_factor, FAbs(ofi)))),
              FDivInt(FMul(cfg.max_spread_bps, mid), 10000)))

\* q / q_max clamped to [-1, 1], 0 without a maximum
inventory_ratio(position, max_position) ==
    IF max_position > 0
    THEN FMax(FromInt(-1), FMin(FromInt(1), Frac(position, max_position)))
    ELSE FZero

\* std::max(1, static_cast<int>(base_size * (1 -/+ inv_ratio * scale)))
as_size(cfg, signed_ratio) ==
    Max(1, static_cast_int(FMulInt(FAdd(FromInt(1),
                                        FMul(signed_ratio, cfg.size_inventory_scale)),
                                   cfg.base_size)))

\* AvellanedaStoikovStrategy::compute_quotes once the estimators are fed:
\* the decision for a snapshot, a variance and an imbalance
as_decision(cfg, snap, variance, ofi) ==
    IF pulls_quotes(cfg, ofi) THEN QuoteDecision(FZero, FZero, 0, 0, FALSE)
    ELSE QuoteDecision(
           FSub(FSub(snap.mid_price,
                     FMulInt(variance_term(cfg, variance), snap.position)),
                FDivInt(optimal_spread(cfg, snap.mid_price, variance, ofi), 2)),
           FAdd(FSub(snap.mid_price,
                     FMulInt(variance_term(cfg, variance), snap.position)),
                FDivInt(optimal_spread(cfg, snap.mid_price, variance, ofi), 2)),
           as_size(cfg, FSub(FZero, inventory_ratio(snap.position, snap.max_position))),
           as_size(cfg, inventory_ratio(snap.position, snap.max_position)),
           TRUE)

\* std::max(0.1, 1.0 - std::abs(position) / max_position)
heuristic_inv_factor(snap) ==
    FMax(Frac(1, 10), FSub(FromInt(1), Frac(Abs(snap.position), snap.max_position)))

\* static_cast<int>(base_size * (1.0 + depth * size_factor) * inv_factor),
\* at least 1
heuristic_size(levels, snap) ==
    Max(1, static_cast_int(
               FMul(FMulInt(FAdd(FromInt(1),
                                 FMulInt(Frac(1, 10),
                                         IF levels = <<>> THEN 0 ELSE levels[1].size)),
                            5),
                    heuristic_inv_factor(snap))))

\* -position * skew_factor clamped to [-max_skew, max_skew]
heuristic_inv_skew(snap) ==
    FMax(Frac(-1, 100), FMin(Frac(1, 100), FMulInt(Frac(-1, 1000), snap.position)))

\* HeuristicStrategy::compute_quotes
heuristic_decision(snap) ==
    QuoteDecision(FAdd(FSub(snap.mid_price, Frac(1, 100)), heuristic_inv_skew(snap)),
                  FAdd(FAdd(snap.mid_price, Frac(1, 100)), heuristic_inv_skew(snap)),
                  heuristic_size(snap.bid_levels, snap),
                  heuristic_size(snap.ask_levels, snap),
                  TRUE)

\* st_call records, for each strategy, the number of compute_quotes calls
\* made on it, the snapshot and the decision of the last one and of the one
\* before, and for the reservation-price strategy every trade it was passed
NoCall == [calls |-> 0, snap |-> "none", decision |-> "none",
           prev_snap |-> "none", prev_decision |-> "none"]

ST_call(name, snap, decision) ==
    [st_call EXCEPT !.op = "compute_quotes", !.strategy = name,
                    ![name] = [calls |-> @.calls + 1, snap |-> snap,
                               decision |-> decision, prev_snap |-> @.snap,
                               prev_decision |-> @.decision]]

\* AvellanedaStoikovStrategy::compute_quotes
AS_compute_quotes(snap, vol, ofi) ==
    /\ vol_estimator_' = vol
    /\ ofi_estimator_' = ofi
    /\ st_call' = [ST_call("avellaneda_stoikov", snap,
                           as_decision(config_, snap, sigma2(vol), normalized_ofi(ofi)))
                      EXCEPT !.trades = @ \o snap.trades]
    /\ UNCHANGED config_

\* HeuristicStrategy::compute_quotes: the strategy has no members
Heuristic_compute_quotes(snap) ==
    /\ st_call' = ST_call("heuristic", snap, heuristic_decision(snap))
    /\ UNCHANGED <<config_, vol_estimator_, ofi_estimator_>>

----------------------------------------------------------------------------
(* One strategy object of each kind, passed snapshots by a caller.          *)

MaxStrategyCalls == 3

\* trades a snapshot may carry
SnapshotTradesIn ==
    { <<>>,
      <<[aggressor_side |-> "BUY", size |-> 1]>>,
      <<[aggressor_side |-> "SELL", size |-> 1]>>,
      <<[aggressor_side |-> "BUY", size |-> 3],
        [aggressor_side |-> "SELL", size |-> 1]>> }

\* make_snap(mid, position, max_pos) with the trades of the event
SnapshotIn ==
    [mid_price : {FromInt(100), FromInt(200)},
     bid_levels : {<<[price |-> FromInt(99), size |-> 100]>>},
     ask_levels : {<<[price |-> FromInt(201), size |-> 100]>>},
     trades : SnapshotTradesIn,
     position : {0, 600},
     max_position : {1000}]

InitStrategy ==
    /\ RM_Init
    /\ ME_Init
    /\ AC_Init
    /\ MM_Init
    /\ SIM_Init
    /\ WS_Init
    /\ clock = 0
    /\ calls = 0
    /\ \E pull_on_toxic \in BOOLEAN, ofi_window \in {2, 3} :
         /\ config_ = AvellanedaStoikovConfig(pull_on_toxic, ofi_window)
         /\ vol_estimator_ = RollingVolatility(config_.vol_window)
         /\ ofi_estimator_ = RollingOFI(config_.ofi_window)
    /\ st_call = [op |-> "init", strategy |-> "none", avellaneda_stoikov |-> NoCall,
                  heuristic |-> NoCall, trades |-> <<>>]

StrategyUnchanged ==
    UNCHANGED <<rm_vars, clock, rm_call, me_vars, me_call, ac_vars, ac_call, mm_vars,
                sim_vars, ws_vars>>

ASComputeQuotes ==
    \E snap \in SnapshotIn :
        /\ calls < MaxStrategyCalls
        /\ calls' = calls + 1
        /\ \E vol \in {on_mid(vol_estimator_, snap.mid_price)},
              ofi \in {on_trades(ofi_estimator_, snap.trades)} :
             AS_compute_quotes(snap, vol, ofi)
        /\ StrategyUnchanged

HeuristicComputeQuotes ==
    \E snap \in SnapshotIn :
        /\ calls < MaxStrategyCalls
        /\ calls' = calls + 1
        /\ Heuristic_compute_quotes(snap)
        /\ StrategyUnchanged

NextStrategy == ASComputeQuotes \/ HeuristicComputeQuotes

SpecStrategy == InitStrategy /\ [][NextStrategy]_vars

----------------------------------------------------------------------------
(* Claims about the strategies.                                             *)

\* the two last calls on a strategy were passed equal snapshots
SameSnapshotTwice(name) ==
    st_call[name].calls >= 2 /\ st_call[name].snap = st_call[name].prev_snap

\* C31: compute_quotes is a pure transform of its snapshot for both
\* strategies: two calls with equal snapshots on one strategy object return
\* equal decisions whatever snapshots were passed before, and a call changes
\* no accounting and no risk state
C31_PureTransform ==
    [][/\ \A name \in {"avellaneda_stoikov", "heuristic"} :
             SameSnapshotTwice(name)' =>
                 st_call'[name].decision = st_call'[name].prev_decision
       /\ UNCHANGED <<ac_vars, rm_vars>>]_vars

\* the reservation-price strategy answers the same snapshot once with
\* quotes and once without
SameSnapshotQuotedAndPulled ==
    /\ SameSnapshotTwice("avellaneda_stoikov")
    /\ st_call.avellaneda_stoikov.prev_decision.should_quote
    /\ ~st_call.avellaneda_stoikov.decision.should_quote

\* the reservation-price strategy answers the same snapshot with two
\* different bid prices: the volatility estimate has moved between the calls
SameSnapshotRepriced ==
    /\ SameSnapshotTwice("avellaneda_stoikov")
    /\ ~config_.pull_on_toxic
    /\ st_call.avellaneda_stoikov.snap.trades = <<>>
    /\ st_call.avellaneda_stoikov.snap.position # 0
    /\ st_call.avellaneda_stoikov.decision.bid_price
         # st_call.avellaneda_stoikov.prev_decision.bid_price

\* the heuristic strategy answers equal snapshots with equal decisions
HeuristicIsPure ==
    SameSnapshotTwice("heuristic") =>
        st_call.heuristic.decision = st_call.heuristic.prev_decision

\* the last n elements of a sequence, all of them when it is shorter
LastN(xs, n) == SubSeq(xs, Max(1, Len(xs) - n + 1), Len(xs))

\* the normalized imbalance of a sequence of trades: buy volume less sell
\* volume over the whole volume, 0 without volume
Imbalance(trades) ==
    LET buys == SumInt([i \in DOMAIN trades |->
                           IF trades[i].aggressor_side = "BUY" THEN trades[i].size ELSE 0])
        total == SumInt([i \in DOMAIN trades |-> trades[i].size])
    IN  IF total = 0 THEN FZero ELSE Frac(2 * buys - total, total)

\* the imbalance over the window: the ofi_window most recent trades the
\* strategy was passed, this snapshot's among them
WindowImbalance == Imbalance(LastN(st_call.trades, config_.ofi_window))

\* C32: with pull_on_toxic the reservation-price strategy returns
\* should_quote = false exactly when the absolute imbalance over the window
\* is greater than toxic_ofi_threshold; without it should_quote is always
\* true
C32_PullOnToxic ==
    (st_call.op = "compute_quotes" /\ st_call.strategy = "avellaneda_stoikov") =>
        st_call.avellaneda_stoikov.decision.should_quote
            = ~(config_.pull_on_toxic
                /\ FGt(FAbs(WindowImbalance), config_.toxic_ofi_threshold))

\* quotes are pulled on an imbalance over a window that has rolled: a trade
\* passed earlier has left it
C32_Witness ==
    /\ st_call.op = "compute_quotes"
    /\ st_call.strategy = "avellaneda_stoikov"
    /\ config_.pull_on_toxic
    /\ Len(st_call.trades) > config_.ofi_window
    /\ Imbalance(st_call.trades) = FZero
    /\ ~st_call.avellaneda_stoikov.decision.should_quote

\* an imbalance exactly at the threshold: the strategy quotes
C32_WitnessAtThreshold ==
    /\ st_call.op = "compute_quotes"
    /\ st_call.strategy = "avellaneda_stoikov"
    /\ config_.pull_on_toxic
    /\ FAbs(WindowImbalance) = config_.toxic_ofi_threshold
    /\ st_call.avellaneda_stoikov.decision.should_quote

====
